---- MODULE Spec2Model ----
(***************************************************************************)
(* A model of prettytable.PrettyTable (src/src/prettytable/prettytable.py): *)
(* the row/column store, the per-column attribute maps, the preset styles   *)
(* and the text render.                                                     *)
(*                                                                          *)
(* Python values are encoded as follows.  A str is a TLA+ string; the       *)
(* box-drawing characters are written as ASCII letters.  None in a          *)
(* string-typed slot is the string "None"; None in an integer-typed slot is *)
(* NoneInt.  A dict is a function whose DOMAIN is its key set.  A list is a *)
(* sequence.  A callable is the name of one of the functions of the model.  *)
(* A stored row is a record: vals is the list of cell values and flag is a  *)
(* history field that remembers the divider flag the row was given (it is   *)
(* not read by any operation of the program).                               *)
(*                                                                          *)
(* Three more history variables: call is the last call made on the table    *)
(* (operation, argument, outcome), ncalls counts the calls, and before is   *)
(* the table as it was when the current run of successful set_style calls   *)
(* began (the table itself when the last call was not one of them).         *)
(* returned is what the last call returned (the string "None" for a call    *)
(* that returns nothing or raises), and renders is the history of the       *)
(* render calls made since the last call that was not a render: for each    *)
(* one its options, its outcome, the text it returned and whether the same  *)
(* call was made again with the same outcome.                               *)
(***************************************************************************)
EXTENDS Integers, Sequences, FiniteSets, TLC

\* ---------------------------------------------------------------- bounds
MaxCols == 2
MaxRows == 2
MaxBatch == 2
\* the longest sequence of calls made on one table
MaxCalls == 4

\* ------------------------------------------------------ program constants
FRAME == 0
ALL == 1
NONE == 2
HEADER == 3
DEFAULT == 10
MSWORD_FRIENDLY == 11
PLAIN_COLUMNS == 12
MARKDOWN == 13
ORGMODE == 14
DOUBLE_BORDER == 15
SINGLE_BORDER == 16
RANDOM == 20
BASE_ALIGN_VALUE == "base_align_value"
NoneInt == 0 - 1

\* ------------------------------------------------------------ input sets
Names == {"a", "b"}

VARIABLES
    _field_names, _rows, _dividers,
    _align, _valign, _max_width, _min_width,
    _int_format, _float_format, _custom_format, _none_format,
    _kwargs,
    _title, _start, _end, _fields, _header, _use_header_width, _header_style,
    _border, _preserve_internal_border, _hrules, _vrules,
    _sortby, _reversesort, _sort_key, _row_filter,
    _min_table_width, _max_table_width,
    _padding_width, _left_padding_width, _right_padding_width,
    _vertical_char, _horizontal_char, _horizontal_align_char, _junction_char,
    _top_junction_char, _bottom_junction_char,
    _right_junction_char, _left_junction_char,
    _top_right_junction_char, _top_left_junction_char,
    _bottom_right_junction_char, _bottom_left_junction_char,
    _print_empty, _oldsortslice, _break_on_hyphens,
    _style, orgmode,
    _widths, _hrule,
    call, returned, renders, before, ncalls,
    new

storeVars == <<_field_names, _rows, _dividers>>
columnVars == <<_align, _valign, _max_width, _min_width,
                _int_format, _float_format, _custom_format, _none_format>>
optionVars == <<_title, _start, _end, _fields, _header, _use_header_width,
                _header_style, _border, _preserve_internal_border, _hrules,
                _vrules, _sortby, _reversesort, _sort_key, _row_filter,
                _min_table_width, _max_table_width, _padding_width,
                _left_padding_width, _right_padding_width, _vertical_char,
                _horizontal_char, _horizontal_align_char, _junction_char,
                _top_junction_char, _bottom_junction_char,
                _right_junction_char, _left_junction_char,
                _top_right_junction_char, _top_left_junction_char,
                _bottom_right_junction_char, _bottom_left_junction_char,
                _print_empty, _oldsortslice, _break_on_hyphens,
                _style, orgmode>>
transientVars == <<_widths, _hrule>>
vars == <<storeVars, columnVars, _kwargs, optionVars, transientVars,
          call, returned, renders, before, ncalls, new>>

\* The object as one record, so that methods can be written as functions
\* from the object before the call to the object after it.
Self ==
    [_field_names |-> _field_names, _rows |-> _rows, _dividers |-> _dividers,
     _align |-> _align, _valign |-> _valign,
     _max_width |-> _max_width, _min_width |-> _min_width,
     _int_format |-> _int_format, _float_format |-> _float_format,
     _custom_format |-> _custom_format, _none_format |-> _none_format,
     _kwargs |-> _kwargs,
     _title |-> _title, _start |-> _start, _end |-> _end, _fields |-> _fields,
     _header |-> _header, _use_header_width |-> _use_header_width,
     _header_style |-> _header_style, _border |-> _border,
     _preserve_internal_border |-> _preserve_internal_border,
     _hrules |-> _hrules, _vrules |-> _vrules,
     _sortby |-> _sortby, _reversesort |-> _reversesort,
     _sort_key |-> _sort_key, _row_filter |-> _row_filter,
     _min_table_width |-> _min_table_width,
     _max_table_width |-> _max_table_width,
     _padding_width |-> _padding_width,
     _left_padding_width |-> _left_padding_width,
     _right_padding_width |-> _right_padding_width,
     _vertical_char |-> _vertical_char, _horizontal_char |-> _horizontal_char,
     _horizontal_align_char |-> _horizontal_align_char,
     _junction_char |-> _junction_char,
     _top_junction_char |-> _top_junction_char,
     _bottom_junction_char |-> _bottom_junction_char,
     _right_junction_char |-> _right_junction_char,
     _left_junction_char |-> _left_junction_char,
     _top_right_junction_char |-> _top_right_junction_char,
     _top_left_junction_char |-> _top_left_junction_char,
     _bottom_right_junction_char |-> _bottom_right_junction_char,
     _bottom_left_junction_char |-> _bottom_left_junction_char,
     _print_empty |-> _print_empty, _oldsortslice |-> _oldsortslice,
     _break_on_hyphens |-> _break_on_hyphens,
     _style |-> _style, orgmode |-> orgmode,
     _widths |-> _widths, _hrule |-> _hrule]

\* The object after a call is the record s.
Becomes(s) ==
    /\ _field_names' = s._field_names
    /\ _rows' = s._rows
    /\ _dividers' = s._dividers
    /\ _align' = s._align
    /\ _valign' = s._valign
    /\ _max_width' = s._max_width
    /\ _min_width' = s._min_width
    /\ _int_format' = s._int_format
    /\ _float_format' = s._float_format
    /\ _custom_format' = s._custom_format
    /\ _none_format' = s._none_format
    /\ _kwargs' = s._kwargs
    /\ _title' = s._title
    /\ _start' = s._start
    /\ _end' = s._end
    /\ _fields' = s._fields
    /\ _header' = s._header
    /\ _use_header_width' = s._use_header_width
    /\ _header_style' = s._header_style
    /\ _border' = s._border
    /\ _preserve_internal_border' = s._preserve_internal_border
    /\ _hrules' = s._hrules
    /\ _vrules' = s._vrules
    /\ _sortby' = s._sortby
    /\ _reversesort' = s._reversesort
    /\ _sort_key' = s._sort_key
    /\ _row_filter' = s._row_filter
    /\ _min_table_width' = s._min_table_width
    /\ _max_table_width' = s._max_table_width
    /\ _padding_width' = s._padding_width
    /\ _left_padding_width' = s._left_padding_width
    /\ _right_padding_width' = s._right_padding_width
    /\ _vertical_char' = s._vertical_char
    /\ _horizontal_char' = s._horizontal_char
    /\ _horizontal_align_char' = s._horizontal_align_char
    /\ _junction_char' = s._junction_char
    /\ _top_junction_char' = s._top_junction_char
    /\ _bottom_junction_char' = s._bottom_junction_char
    /\ _right_junction_char' = s._right_junction_char
    /\ _left_junction_char' = s._left_junction_char
    /\ _top_right_junction_char' = s._top_right_junction_char
    /\ _top_left_junction_char' = s._top_left_junction_char
    /\ _bottom_right_junction_char' = s._bottom_right_junction_char
    /\ _bottom_left_junction_char' = s._bottom_left_junction_char
    /\ _print_empty' = s._print_empty
    /\ _oldsortslice' = s._oldsortslice
    /\ _break_on_hyphens' = s._break_on_hyphens
    /\ _style' = s._style
    /\ orgmode' = s.orgmode
    /\ _widths' = s._widths
    /\ _hrule' = s._hrule

\* ------------------------------------------------------------ dict / list
Range(seq) == {seq[i] : i \in 1..Len(seq)}

EmptyDict == [k \in {} |-> "None"]

\* d[k] = v
DictSet(d, k, v) == [x \in DOMAIN d \cup {k} |-> IF x = k THEN v ELSE d[x]]

\* for field in fields: d[field] = v
DictSetAll(d, fields, v) ==
    [x \in DOMAIN d \cup Range(fields) |->
        IF x \in Range(fields) THEN v ELSE d[x]]

\* del d[k]
DictDel(d, k) == [x \in DOMAIN d \ {k} |-> d[x]]

\* del lst[i], i a 1-based position
ListDel(lst, i) == [j \in 1..(Len(lst) - 1) |-> IF j < i THEN lst[j] ELSE lst[j + 1]]

\* lst.insert(0, v)
ListInsertFront(lst, v) == <<v>> \o lst

\* lst.index(v): the first 1-based position of v
ListIndex(lst, v) == CHOOSE i \in 1..Len(lst) : lst[i] = v /\ \A j \in 1..(i - 1) : lst[j] # v

\* len(val) == len(set(val))
IsUnique(val) == Len(val) = Cardinality(Range(val))

\* -------------------------------------------------------- method results
\* Statement sequencing: the value of F for the value v of an earlier
\* statement, which is computed once.
Then(v, F(_)) == CHOOSE y \in {F(x) : x \in {v}} : TRUE

\* A method maps the object before the call to the object after it and to
\* the outcome: "ok", or the name of the exception that was raised.
Ok(s) == [s |-> s, result |-> "ok"]
Raise(s, exc) == [s |-> s, result |-> exc]
\* a method that returns a value
Returns(s, text) == [s |-> s, result |-> "ok", text |-> text]
\* what the caller gets from a call that ended as r: None when the method
\* returns nothing, and nothing but the exception when it raises
ReturnedBy(r) ==
    IF r.result = "ok" /\ "text" \in DOMAIN r THEN r.text ELSE "None"

\* ------------------------------------------------------------- validators
_validate_align(val) == val \in {"l", "c", "r"}

_validate_valign(val) == val \in {"t", "m", "b"}

_validate_nonnegative_int(val) == val >= 0

\* isinstance(val, str); NotAStr stands for a truthy value that is no str
NotAStr == "<not a str>"
_validate_none_format(val) == val # NotAStr

\* the accepted format strings of the model are "" and strings of digits
_validate_int_format(val) == val \in {"", "1", "2", "3"}

_validate_float_format(val) == val \in {"", ".1", ".2", "3.1"}

_validate_field_names(s, val) ==
    /\ s._field_names # <<>> => Len(val) = Len(s._field_names)
    /\ s._rows # <<>> => Len(val) = Len(s._rows[1].vals)
    /\ IsUnique(val)

\* ------------------------------------------------- per-column map setters
align_setter(s, val) ==
    IF val # "None"
    THEN IF ~_validate_align(val) THEN Raise(s, "ValueError")
         ELSE IF s._field_names = <<>>
              THEN Ok([s EXCEPT !._align = (BASE_ALIGN_VALUE :> val)])
              ELSE Ok([s EXCEPT !._align = DictSetAll(@, s._field_names, val)])
    ELSE IF s._field_names = <<>>
         THEN Ok([s EXCEPT !._align = (BASE_ALIGN_VALUE :> "c")])
         ELSE Ok([s EXCEPT !._align = DictSetAll(@, s._field_names, "c")])

valign_setter(s, val) ==
    IF s._field_names = <<>> THEN Ok([s EXCEPT !._valign = EmptyDict])
    ELSE IF val # "None"
         THEN IF ~_validate_valign(val) THEN Raise(s, "ValueError")
              ELSE Ok([s EXCEPT !._valign = DictSetAll(@, s._field_names, val)])
         ELSE Ok([s EXCEPT !._valign = DictSetAll(@, s._field_names, "t")])

\* `if val:` is false for None and for 0
max_width_setter(s, val) ==
    IF val # NoneInt /\ val # 0
    THEN IF ~_validate_nonnegative_int(val) THEN Raise(s, "ValueError")
         ELSE Ok([s EXCEPT !._max_width = DictSetAll(@, s._field_names, val)])
    ELSE Ok([s EXCEPT !._max_width = EmptyDict])

min_width_setter(s, val) ==
    IF val # NoneInt /\ val # 0
    THEN IF ~_validate_nonnegative_int(val) THEN Raise(s, "ValueError")
         ELSE Ok([s EXCEPT !._min_width = DictSetAll(@, s._field_names, val)])
    ELSE Ok([s EXCEPT !._min_width = EmptyDict])

\* `if val:` is false for None and for ""
int_format_setter(s, val) ==
    IF val # "None" /\ val # ""
    THEN IF ~_validate_int_format(val) THEN Raise(s, "ValueError")
         ELSE Ok([s EXCEPT !._int_format = DictSetAll(@, s._field_names, val)])
    ELSE Ok([s EXCEPT !._int_format = EmptyDict])

float_format_setter(s, val) ==
    IF val # "None" /\ val # ""
    THEN IF ~_validate_float_format(val) THEN Raise(s, "ValueError")
         ELSE Ok([s EXCEPT !._float_format = DictSetAll(@, s._field_names, val)])
    ELSE Ok([s EXCEPT !._float_format = EmptyDict])

\* val is [kind |-> "none"], [kind |-> "dict", v |-> a dict of callables],
\* [kind |-> "callable", v |-> the callable] or [kind |-> "other"]
custom_format_setter(s, val) ==
    IF val.kind = "none" THEN Ok([s EXCEPT !._custom_format = EmptyDict])
    ELSE IF val.kind = "dict" THEN Ok([s EXCEPT !._custom_format = val.v])
    ELSE IF val.kind = "callable"
         THEN Ok([s EXCEPT !._custom_format = DictSetAll(@, s._field_names, val.v)])
         ELSE Raise(s, "TypeError")

\* the fields are reset to None before the value is validated
none_format_setter(s, val) ==
    IF s._field_names = <<>> THEN Ok([s EXCEPT !._none_format = EmptyDict])
    ELSE IF val # "None" /\ val # ""
         THEN LET reset == [s EXCEPT !._none_format = DictSetAll(@, s._field_names, "None")]
              IN  IF ~_validate_none_format(val) THEN Raise(reset, "TypeError")
                  ELSE Ok([s EXCEPT !._none_format = DictSetAll(@, s._field_names, val)])
         ELSE Ok([s EXCEPT !._none_format = DictSetAll(@, s._field_names, "None")])

\* setattr(self, attr, self._kwargs[attr] or {}) for the eight attributes, in
\* the order of the source; {} is falsy for every setter but custom_format's,
\* where it is an empty dict
_column_specific_args(s) ==
    Then(align_setter(s, s._kwargs.align).s, LAMBDA s1 :
    Then(valign_setter(s1, s._kwargs.valign).s, LAMBDA s2 :
    Then(max_width_setter(s2, s._kwargs.max_width).s, LAMBDA s3 :
    Then(min_width_setter(s3, s._kwargs.min_width).s, LAMBDA s4 :
    Then(int_format_setter(s4, s._kwargs.int_format).s, LAMBDA s5 :
    Then(float_format_setter(s5, s._kwargs.float_format).s, LAMBDA s6 :
    Then(custom_format_setter(s6,
             IF s._kwargs.custom_format.kind = "none"
             THEN [kind |-> "dict", v |-> EmptyDict]
             ELSE s._kwargs.custom_format).s, LAMBDA s7 :
    none_format_setter(s7, s._kwargs.none_format).s)))))))

\* for old_name, new_name in zip(old_names, val): d[new_name] = d[old_name]
RECURSIVE RenameLoop(_, _, _, _)
RenameLoop(d, old_names, val, i) ==
    IF i > Len(old_names) \/ i > Len(val) THEN d
    ELSE RenameLoop(DictSet(d, val[i], d[old_names[i]]), old_names, val, i + 1)

field_names_setter(s, val) ==
    IF ~_validate_field_names(s, val) THEN Raise(s, "ValueError")
    ELSE
    Then(_column_specific_args([s EXCEPT !._field_names = val]), LAMBDA s1 :
    Then(IF DOMAIN s1._align # {} /\ s._field_names # <<>>
         THEN [s1 EXCEPT !._align = RenameLoop(@, s._field_names, val, 1)]
         ELSE IF DOMAIN s1._align # {}
              THEN [s1 EXCEPT !._align =
                       DictSetAll(@, s1._field_names, @[BASE_ALIGN_VALUE])]
              ELSE align_setter(s1, "c").s, LAMBDA s2 :
    \* the loop that follows in the source pops old_name only when it is
    \* NOT a key of the map, which never happens after the loop above
    Ok(IF DOMAIN s2._valign # {} /\ s._field_names # <<>>
       THEN [s2 EXCEPT !._valign = RenameLoop(@, s._field_names, val, 1)]
       ELSE valign_setter(s2, "t").s)))

\* ---------------------------------------------------------- store methods
\* [f"Field {n + 1}" for n in range(n)]
DefaultFieldNames(n) == [i \in 1..n |-> "Field " \o ToString(i)]

\* add_row with the length check after the append instead of before it
add_row_checks_late(s, row, divider) ==
    Then(IF s._field_names = <<>>
         THEN field_names_setter(s, DefaultFieldNames(Len(row)))
         ELSE Ok(s), LAMBDA r :
    Then([r.s EXCEPT !._rows = Append(@, [vals |-> row, flag |-> divider]),
                     !._dividers = Append(@, divider)], LAMBDA appended :
    IF r.result # "ok" THEN r
    ELSE IF s._field_names # <<>> /\ Len(row) # Len(s._field_names)
         THEN Raise(appended, "ValueError")
         ELSE Ok(appended)))

add_row(s, row, divider) ==
    IF s._field_names # <<>> /\ Len(row) # Len(s._field_names)
    THEN Raise(s, "ValueError")
    ELSE Then(IF s._field_names = <<>>
              THEN field_names_setter(s, DefaultFieldNames(Len(row)))
              ELSE Ok(s), LAMBDA r :
         IF r.result # "ok" THEN r
         ELSE Ok([r.s EXCEPT
                    !._rows = Append(@, [vals |-> row, flag |-> divider]),
                    !._dividers = Append(@, divider)]))

\* for row in rows[:-1]: self.add_row(row)
RECURSIVE AddRowsLoop(_, _, _)
AddRowsLoop(s, rows, i) ==
    IF i > Len(rows) - 1 THEN Ok(s)
    ELSE Then(add_row(s, rows[i], FALSE), LAMBDA r :
         IF r.result # "ok" THEN r ELSE AddRowsLoop(r.s, rows, i + 1))

add_rows(s, rows, divider) ==
    Then(AddRowsLoop(s, rows, 1), LAMBDA r :
    IF r.result # "ok" THEN r
    ELSE IF rows # <<>> THEN add_row(r.s, rows[Len(rows)], divider)
         ELSE r)

\* del lst[index] for a Python index, which may be negative
PyDel(lst, index) ==
    IF index >= Len(lst) \/ index < 0 - Len(lst)
    THEN [ok |-> FALSE, lst |-> lst]
    ELSE [ok |-> TRUE,
          lst |-> ListDel(lst, IF index >= 0 THEN index + 1 ELSE Len(lst) + index + 1)]

\* del_row that always drops the last divider flag (del self._dividers[-1])
del_row_last_divider(s, row_index) ==
    IF row_index > Len(s._rows) - 1 THEN Raise(s, "IndexError")
    ELSE LET d1 == PyDel(s._rows, row_index)
             s1 == [s EXCEPT !._rows = d1.lst]
             d2 == PyDel(s._dividers, 0 - 1)
         IN  IF ~d1.ok THEN Raise(s, "IndexError")
             ELSE IF ~d2.ok THEN Raise(s1, "IndexError")
             ELSE Ok([s1 EXCEPT !._dividers = d2.lst])

del_row(s, row_index) ==
    IF row_index > Len(s._rows) - 1 THEN Raise(s, "IndexError")
    ELSE LET d1 == PyDel(s._rows, row_index)
             s1 == [s EXCEPT !._rows = d1.lst]
             d2 == PyDel(s._dividers, row_index)
         IN  IF ~d1.ok THEN Raise(s, "IndexError")
             ELSE IF ~d2.ok THEN Raise(s1, "IndexError")
             ELSE Ok([s1 EXCEPT !._dividers = d2.lst])

\* the history field of the last row follows the flag add_divider sets on it
add_divider(s) ==
    IF Len(s._dividers) >= 1
    THEN Ok([s EXCEPT
               !._dividers = [@ EXCEPT ![Len(@)] = TRUE],
               !._rows = IF @ = <<>> THEN @
                         ELSE [@ EXCEPT ![Len(@)] = [@ EXCEPT !.flag = TRUE]]])
    ELSE Ok(s)

\* for i in range(len(column)): create row i when missing, then append
RECURSIVE AddColumnLoop(_, _, _)
AddColumnLoop(s, column, i) ==
    IF i > Len(column) THEN s
    ELSE Then(IF Len(s._rows) < i
              THEN [s EXCEPT
                      !._rows = Append(@, [vals |-> <<>>, flag |-> FALSE]),
                      !._dividers = Append(@, FALSE)]
              ELSE s, LAMBDA s1 :
         Then([s1 EXCEPT !._rows[i] = [@ EXCEPT !.vals = Append(@, column[i])]],
              LAMBDA s2 : AddColumnLoop(s2, column, i + 1)))

add_column(s, fieldname, column, align, valign) ==
    IF Len(s._rows) \in {0, Len(column)}
    THEN IF ~_validate_align(align) \/ ~_validate_valign(valign)
         THEN Raise(s, "ValueError")
         ELSE Then([s EXCEPT !._field_names = Append(@, fieldname),
                             !._align = DictSet(@, fieldname, align),
                             !._valign = DictSet(@, fieldname, valign)],
                   LAMBDA s1 : Ok(AddColumnLoop(s1, column, 1)))
    ELSE Raise(s, "ValueError")

add_autoindex(s, fieldname) ==
    Ok([s EXCEPT
          !._field_names = ListInsertFront(@, fieldname),
          !._align = DictSet(@, fieldname,
                        IF s._kwargs.align # "None" THEN s._kwargs.align ELSE "c"),
          !._valign = DictSet(@, fieldname,
                        IF s._kwargs.valign # "None" THEN s._kwargs.valign ELSE "t"),
          !._rows = [i \in 1..Len(@) |->
                        [@[i] EXCEPT !.vals = ListInsertFront(@, i)]]])

\* for row in self._rows: del row[col_index]; a row that is too short raises
\* IndexError and leaves the rows before it already changed
RECURSIVE DelColumnLoop(_, _, _)
DelColumnLoop(s, col_index, i) ==
    IF i > Len(s._rows) THEN Ok(s)
    ELSE IF col_index > Len(s._rows[i].vals) THEN Raise(s, "IndexError")
         ELSE Then([s EXCEPT !._rows[i] = [@ EXCEPT !.vals = ListDel(@, col_index)]],
                   LAMBDA s1 : DelColumnLoop(s1, col_index, i + 1))

del_column(s, fieldname) ==
    IF fieldname \notin Range(s._field_names) THEN Raise(s, "ValueError")
    ELSE Then(ListIndex(s._field_names, fieldname), LAMBDA col_index :
         Then([s EXCEPT !._field_names = ListDel(@, col_index)],
              LAMBDA s1 : DelColumnLoop(s1, col_index, 1)))

clear_rows(s) == Ok([s EXCEPT !._rows = <<>>, !._dividers = <<>>])

clear(s) ==
    Ok([s EXCEPT !._rows = <<>>, !._dividers = <<>>,
                 !._field_names = <<>>, !._widths = <<>>])

\* ---------------------------------------------------------- option setters
\* assert val in list(HRuleStyle)
_validate_hrules(val) == val \in {FRAME, ALL, NONE, HEADER}

border_setter(s, val) == Ok([s EXCEPT !._border = val])

hrules_setter(s, val) ==
    IF ~_validate_hrules(val) THEN Raise(s, "ValueError")
    ELSE Ok([s EXCEPT !._hrules = val])

padding_width_setter(s, val) ==
    IF ~_validate_nonnegative_int(val) THEN Raise(s, "ValueError")
    ELSE Ok([s EXCEPT !._padding_width = val])

left_padding_width_setter(s, val) ==
    IF ~_validate_nonnegative_int(val) THEN Raise(s, "ValueError")
    ELSE Ok([s EXCEPT !._left_padding_width = val])

right_padding_width_setter(s, val) ==
    IF ~_validate_nonnegative_int(val) THEN Raise(s, "ValueError")
    ELSE Ok([s EXCEPT !._right_padding_width = val])

\* ----------------------------------------------------------- preset styles
\* The box-drawing characters of the two border styles, each one character
\* wide, written as ASCII letters: TLA+ strings hold ASCII only.
DOUBLE_HORIZONTAL == "A"
DOUBLE_VERTICAL == "B"
DOUBLE_JUNCTION == "C"
DOUBLE_TOP == "D"
DOUBLE_BOTTOM == "E"
DOUBLE_RIGHT == "F"
DOUBLE_LEFT == "G"
DOUBLE_TOP_RIGHT == "H"
DOUBLE_TOP_LEFT == "I"
DOUBLE_BOTTOM_RIGHT == "J"
DOUBLE_BOTTOM_LEFT == "K"
SINGLE_HORIZONTAL == "L"
SINGLE_VERTICAL == "M"
SINGLE_JUNCTION == "N"
SINGLE_TOP == "O"
SINGLE_BOTTOM == "P"
SINGLE_RIGHT == "Q"
SINGLE_LEFT == "R"
SINGLE_TOP_RIGHT == "S"
SINGLE_TOP_LEFT == "T"
SINGLE_BOTTOM_RIGHT == "U"
SINGLE_BOTTOM_LEFT == "V"

\* the values the style methods assign all pass the validation of the
\* property setters they go through
_set_default_style(s) ==
    [s EXCEPT !._header = TRUE,
              !._border = TRUE,
              !._hrules = FRAME,
              !._vrules = ALL,
              !._padding_width = 1,
              !._left_padding_width = 1,
              !._right_padding_width = 1,
              !._vertical_char = "|",
              !._horizontal_char = "-",
              !._horizontal_align_char = "None",
              !._junction_char = "+",
              !._top_junction_char = "None",
              !._bottom_junction_char = "None",
              !._right_junction_char = "None",
              !._left_junction_char = "None",
              !._top_right_junction_char = "None",
              !._top_left_junction_char = "None",
              !._bottom_right_junction_char = "None",
              !._bottom_left_junction_char = "None"]

_set_orgmode_style(s) == [s EXCEPT !.orgmode = TRUE]

_set_markdown_style(s) ==
    [s EXCEPT !._header = TRUE,
              !._border = TRUE,
              !._hrules = HEADER,
              !._padding_width = 1,
              !._left_padding_width = 1,
              !._right_padding_width = 1,
              !._vertical_char = "|",
              !._junction_char = "|",
              !._horizontal_align_char = ":"]

_set_msword_style(s) ==
    [s EXCEPT !._header = TRUE,
              !._border = TRUE,
              !._hrules = NONE,
              !._padding_width = 1,
              !._left_padding_width = 1,
              !._right_padding_width = 1,
              !._vertical_char = "|"]

_set_columns_style(s) ==
    [s EXCEPT !._header = TRUE,
              !._border = FALSE,
              !._padding_width = 1,
              !._left_padding_width = 0,
              !._right_padding_width = 8]

_set_double_border_style(s) ==
    [s EXCEPT !._horizontal_char = DOUBLE_HORIZONTAL,
              !._vertical_char = DOUBLE_VERTICAL,
              !._junction_char = DOUBLE_JUNCTION,
              !._top_junction_char = DOUBLE_TOP,
              !._bottom_junction_char = DOUBLE_BOTTOM,
              !._right_junction_char = DOUBLE_RIGHT,
              !._left_junction_char = DOUBLE_LEFT,
              !._top_right_junction_char = DOUBLE_TOP_RIGHT,
              !._top_left_junction_char = DOUBLE_TOP_LEFT,
              !._bottom_right_junction_char = DOUBLE_BOTTOM_RIGHT,
              !._bottom_left_junction_char = DOUBLE_BOTTOM_LEFT]

_set_single_border_style(s) ==
    [s EXCEPT !._horizontal_char = SINGLE_HORIZONTAL,
              !._vertical_char = SINGLE_VERTICAL,
              !._junction_char = SINGLE_JUNCTION,
              !._top_junction_char = SINGLE_TOP,
              !._bottom_junction_char = SINGLE_BOTTOM,
              !._right_junction_char = SINGLE_RIGHT,
              !._left_junction_char = SINGLE_LEFT,
              !._top_right_junction_char = SINGLE_TOP_RIGHT,
              !._top_left_junction_char = SINGLE_TOP_LEFT,
              !._bottom_right_junction_char = SINGLE_BOTTOM_RIGHT,
              !._bottom_left_junction_char = SINGLE_BOTTOM_LEFT]

\* The default style is applied and the style remembered before the style
\* is looked at.  The RANDOM branch is left out: no action passes RANDOM.
set_style(s, style) ==
    Then([_set_default_style(s) EXCEPT !._style = style], LAMBDA s1 :
    IF style = MSWORD_FRIENDLY THEN Ok(_set_msword_style(s1))
    ELSE IF style = PLAIN_COLUMNS THEN Ok(_set_columns_style(s1))
    ELSE IF style = MARKDOWN THEN Ok(_set_markdown_style(s1))
    ELSE IF style = ORGMODE THEN Ok(_set_orgmode_style(s1))
    ELSE IF style = DOUBLE_BORDER THEN Ok(_set_double_border_style(s1))
    ELSE IF style = SINGLE_BORDER THEN Ok(_set_single_border_style(s1))
    ELSE IF style # DEFAULT THEN Raise(s1, "ValueError")
    ELSE Ok(s1))

\* The settings a preset style controls, as rendering reads them.
StyleSettings(s) ==
    [header |-> s._header, border |-> s._border,
     hrules |-> s._hrules, vrules |-> s._vrules,
     padding_width |-> s._padding_width,
     left_padding_width |-> s._left_padding_width,
     right_padding_width |-> s._right_padding_width,
     vertical_char |-> s._vertical_char,
     horizontal_char |-> s._horizontal_char,
     horizontal_align_char |-> s._horizontal_align_char,
     junction_char |-> s._junction_char,
     top_junction_char |-> s._top_junction_char,
     bottom_junction_char |-> s._bottom_junction_char,
     right_junction_char |-> s._right_junction_char,
     left_junction_char |-> s._left_junction_char,
     top_right_junction_char |-> s._top_right_junction_char,
     top_left_junction_char |-> s._top_left_junction_char,
     bottom_right_junction_char |-> s._bottom_right_junction_char,
     bottom_left_junction_char |-> s._bottom_left_junction_char,
     orgmode |-> s.orgmode]

\* --------------------------------------------------------------- rendering
Max(a, b) == IF a >= b THEN a ELSE b
Min(a, b) == IF a <= b THEN a ELSE b

\* x or y, for an attribute that holds a string or None
OrElse(x, y) == IF x # "None" /\ x # "" THEN x ELSE y

\* n * ch
RECURSIVE Rep(_, _)
Rep(ch, n) == IF n <= 0 THEN "" ELSE ch \o Rep(ch, n - 1)

\* text[i:] and text[:-i] for i >= 0
PyFrom(text, i) == SubSeq(text, i + 1, Len(text))
PyDropLast(text, i) == SubSeq(text, 1, Len(text) - i)

\* lst[start:end] for start >= 0 and end >= 0 or None
PySlice(lst, start, end) ==
    SubSeq(lst, start + 1, IF end = NoneInt THEN Len(lst) ELSE Min(end, Len(lst)))

\* sum(lst)
RECURSIVE Sum(_)
Sum(lst) == IF lst = <<>> THEN 0 ELSE Head(lst) + Sum(Tail(lst))

\* "".join(bits)
RECURSIVE Join(_)
Join(bits) == IF bits = <<>> THEN "" ELSE Head(bits) \o Join(Tail(bits))

\* int(w * (a / b)) for b > 0: the float product truncated towards zero.
\* The float result equals the exact one for w <= 10, |a| <= 60, b <= 60.
Scaled(w, a, b) ==
    IF w * a >= 0 THEN (w * a) \div b ELSE 0 - ((0 - (w * a)) \div b)

\* the options that are validated when given to a render call; title is not
_validate_option(s, option, val) ==
    IF option = "sortby" THEN val = "None" \/ val \in Range(s._field_names)
    ELSE IF option = "fields" THEN Range(val) \subseteq Range(s._field_names)
    ELSE IF option \in {"start", "end", "min_table_width", "max_table_width"}
    THEN _validate_nonnegative_int(val)
    ELSE IF option \in {"vertical_char", "junction_char", "horizontal_align_char"}
    THEN Len(val) = 1
    ELSE TRUE

\* options[option] = kwargs[option] if option in kwargs else getattr(self, option)
Given(kwargs, option, stored) ==
    IF option \in DOMAIN kwargs THEN kwargs[option] ELSE stored

\* the options rendering reads; the getters of the position-specific
\* junction characters fall back to junction_char
_get_options(s, kwargs) ==
    [title |-> Given(kwargs, "title", s._title),
     start |-> Given(kwargs, "start", s._start),
     end |-> Given(kwargs, "end", s._end),
     fields |-> Given(kwargs, "fields", s._fields),
     header |-> Given(kwargs, "header", s._header),
     use_header_width |-> Given(kwargs, "use_header_width", s._use_header_width),
     border |-> Given(kwargs, "border", s._border),
     preserve_internal_border |->
         Given(kwargs, "preserve_internal_border", s._preserve_internal_border),
     sortby |-> Given(kwargs, "sortby", s._sortby),
     reversesort |-> Given(kwargs, "reversesort", s._reversesort),
     sort_key |-> Given(kwargs, "sort_key", s._sort_key),
     row_filter |-> Given(kwargs, "row_filter", s._row_filter),
     hrules |-> Given(kwargs, "hrules", s._hrules),
     vrules |-> Given(kwargs, "vrules", s._vrules),
     padding_width |-> Given(kwargs, "padding_width", s._padding_width),
     left_padding_width |->
         Given(kwargs, "left_padding_width", s._left_padding_width),
     right_padding_width |->
         Given(kwargs, "right_padding_width", s._right_padding_width),
     vertical_char |-> Given(kwargs, "vertical_char", s._vertical_char),
     horizontal_char |-> Given(kwargs, "horizontal_char", s._horizontal_char),
     junction_char |-> Given(kwargs, "junction_char", s._junction_char),
     print_empty |-> Given(kwargs, "print_empty", s._print_empty),
     oldsortslice |-> Given(kwargs, "oldsortslice", s._oldsortslice),
     top_junction_char |-> Given(kwargs, "top_junction_char",
         OrElse(s._top_junction_char, s._junction_char)),
     bottom_junction_char |-> Given(kwargs, "bottom_junction_char",
         OrElse(s._bottom_junction_char, s._junction_char)),
     right_junction_char |-> Given(kwargs, "right_junction_char",
         OrElse(s._right_junction_char, s._junction_char)),
     left_junction_char |-> Given(kwargs, "left_junction_char",
         OrElse(s._left_junction_char, s._junction_char)),
     top_right_junction_char |-> Given(kwargs, "top_right_junction_char",
         OrElse(s._top_right_junction_char, s._junction_char)),
     top_left_junction_char |-> Given(kwargs, "top_left_junction_char",
         OrElse(s._top_left_junction_char, s._junction_char)),
     bottom_right_junction_char |-> Given(kwargs, "bottom_right_junction_char",
         OrElse(s._bottom_right_junction_char, s._junction_char)),
     bottom_left_junction_char |-> Given(kwargs, "bottom_left_junction_char",
         OrElse(s._bottom_left_junction_char, s._junction_char))]

\* the row filters of the model: the default lambda x: True, and
\* lambda row: row[:1] == [1]
row_filter(f, row) ==
    IF f = "head_is_1" THEN row # <<>> /\ Head(row) = 1 ELSE TRUE

\* a < b for lists of integers
RECURSIVE ListLess(_, _)
ListLess(a, b) ==
    IF a = <<>> THEN b # <<>>
    ELSE IF b = <<>> THEN FALSE
    ELSE IF Head(a) # Head(b) THEN Head(a) < Head(b)
    ELSE ListLess(Tail(a), Tail(b))

\* rows[:n] after rows.sort(reverse=reverse, key=lambda x: x): the sort is
\* stable, also when reversed
RECURSIVE Sorted(_, _, _)
Sorted(rows, reverse, n) ==
    IF n = 0 THEN <<>>
    ELSE Then(Sorted(rows, reverse, n - 1), LAMBDA acc :
         Then(Cardinality({i \in 1..Len(acc) :
                  IF reverse THEN ~ListLess(acc[i], rows[n])
                  ELSE ~ListLess(rows[n], acc[i])}), LAMBDA k :
         SubSeq(acc, 1, k) \o <<rows[n]>> \o SubSeq(acc, k + 1, Len(acc))))

\* The rows to print: copies of the stored rows, filtered, sorted and
\* sliced.  list.index raises ValueError for a sortby that is no field name,
\* row[sortindex] raises IndexError for a row that is too short.
_get_rows(s, options) ==
    Then([i \in 1..Len(s._rows) |-> s._rows[i].vals], LAMBDA stored :
    Then(IF options.oldsortslice
         THEN PySlice(stored, options.start, options.end)
         ELSE stored, LAMBDA sliced :
    Then(SelectSeq(sliced, LAMBDA row : row_filter(options.row_filter, row)),
         LAMBDA rows :
    IF options.sortby # "None" /\ options.sortby # ""
    THEN IF options.sortby \notin Range(s._field_names)
         THEN [result |-> "ValueError", rows |-> <<>>]
         ELSE Then(ListIndex(s._field_names, options.sortby), LAMBDA sortindex :
              IF \E i \in 1..Len(rows) : Len(rows[i]) < sortindex
              THEN [result |-> "IndexError", rows |-> <<>>]
              ELSE Then(Sorted([i \in 1..Len(rows) |->
                                   <<rows[i][sortindex]>> \o rows[i]],
                               options.reversesort, Len(rows)), LAMBDA sorted :
                   Then([i \in 1..Len(sorted) |-> Tail(sorted[i])],
                        LAMBDA undecorated :
                   [result |-> "ok",
                    rows |-> IF options.oldsortslice THEN undecorated
                             ELSE PySlice(undecorated, options.start,
                                          options.end)])))
    ELSE [result |-> "ok",
          rows |-> IF options.oldsortslice THEN rows
                   ELSE PySlice(rows, options.start, options.end)])))

\* ("%" + fmt + "d") % value for a format of one digit: the number
\* right-justified in a field of that many characters
FormatInt(fmt, value) ==
    Then(CHOOSE n \in 0..9 : ToString(n) = fmt, LAMBDA n :
    Rep(" ", n - Len(ToString(value))) \o ToString(value))

\* the cells of the model are integers; the formatter of the model is
\* lambda f, v: f"[{v}]"
_format_value(s, field, value) ==
    IF field \in DOMAIN s._int_format
    THEN FormatInt(s._int_format[field], value)
    ELSE IF field \in DOMAIN s._custom_format
         THEN "[" \o ToString(value) \o "]"
         ELSE ToString(value)

\* zip(self._field_names, row) stops at the shorter of the two
_format_row(s, row) ==
    [i \in 1..Min(Len(s._field_names), Len(row)) |->
        _format_value(s, s._field_names[i], row[i])]

_format_rows(s, rows) == [i \in 1..Len(rows) |-> _format_row(s, rows[i])]

_get_padding_widths(options) ==
    <<IF options.left_padding_width # NoneInt
      THEN options.left_padding_width ELSE options.padding_width,
      IF options.right_padding_width # NoneInt
      THEN options.right_padding_width ELSE options.padding_width>>

\* is the column of fieldname printed: not options["fields"] or fieldname
\* in options["fields"]
Displayed(options, fieldname) ==
    options.fields = <<>> \/ fieldname \in Range(options.fields)

\* The first `if` sets 2 for FRAME; the second one, which has the else,
\* then sets 1 for ALL and 0 for everything else, FRAME included.
_compute_table_width(s, options) ==
    (IF options.vrules = ALL THEN 1 ELSE 0)
    + Sum([i \in 1..Len(s._field_names) |->
             IF Displayed(options, s._field_names[i])
             THEN s._widths[i] + Sum(_get_padding_widths(options)) + 1
             ELSE 0])

\* the width of a column after one more cell of it was looked at
WidthAfterCell(s, width, fieldname, value) ==
    Then(IF value = "None" /\ fieldname \in DOMAIN s._none_format
            /\ s._none_format[fieldname] # "None"
         THEN s._none_format[fieldname] ELSE value, LAMBDA v :
    Then(IF fieldname \in DOMAIN s._max_width
         THEN Max(width, Min(Len(v), s._max_width[fieldname]))
         ELSE Max(width, Len(v)), LAMBDA w1 :
    Then(IF fieldname \in DOMAIN s._min_width
         THEN Max(w1, s._min_width[fieldname]) ELSE w1, LAMBDA w2 :
    IF s._style = MARKDOWN
    THEN Max(IF s._align[fieldname] \in {"l", "r"} THEN 1 ELSE 3, w2)
    ELSE w2)))

\* for row in rows: for index, value in enumerate(row): ...
RECURSIVE WidthsAfterRows(_, _, _, _)
WidthsAfterRows(s, widths, rows, r) ==
    IF r > Len(rows) THEN widths
    ELSE Then([i \in 1..Len(widths) |->
                  IF i <= Len(rows[r])
                  THEN WidthAfterCell(s, widths[i], s._field_names[i], rows[r][i])
                  ELSE widths[i]], LAMBDA w : WidthsAfterRows(s, w, rows, r + 1))

\* The widths grown to the minimum table width or to the title; what is
\* grown is the list of natural widths, not the list scaled down before.
\* widths[-1] raises IndexError for a table without columns.
GrowWidths(s, widths, options) ==
    Then(Sum(_get_padding_widths(options)), LAMBDA per_col_padding :
    Then(IF options.title # "None" /\ options.title # ""
         THEN Len(options.title) + per_col_padding
              + (IF options.vrules \in {FRAME, ALL} THEN 2 ELSE 0)
         ELSE 0, LAMBDA title_width :
    Then(Max(title_width,
             IF s._min_table_width # NoneInt THEN s._min_table_width ELSE 0)
         - (per_col_padding * Len(widths)
            + (IF options.border THEN Len(widths) + 1
               ELSE IF options.preserve_internal_border THEN Len(widths)
               ELSE 0)), LAMBDA min_width :
    Then(IF Sum(widths) # 0 THEN Sum(widths) ELSE 1, LAMBDA content_width :
    IF content_width < min_width
    THEN Then([i \in 1..Len(widths) |-> Scaled(widths[i], min_width, content_width)],
              LAMBDA grown :
         IF Sum(grown) < min_width
         THEN IF grown = <<>> THEN Raise(s, "IndexError")
              ELSE Ok([s EXCEPT !._widths =
                          [grown EXCEPT ![Len(grown)] = @ + min_width - Sum(grown)]])
         ELSE Ok([s EXCEPT !._widths = grown]))
    ELSE Ok(s)))))

\* _compute_widths that starts from the widths of the render before
_compute_widths_keeps_widths(s, rows, options) ==
    Then(WidthsAfterRows(s,
             IF Len(s._widths) = Len(s._field_names) THEN s._widths
             ELSE IF options.header /\ options.use_header_width
             THEN [i \in 1..Len(s._field_names) |-> Len(s._field_names[i])]
             ELSE [i \in 1..Len(s._field_names) |-> 0],
             rows, 1), LAMBDA widths :
    Then([s EXCEPT !._widths = widths], LAMBDA s1 :
    Then(Sum(_get_padding_widths(options)), LAMBDA per_col_padding :
    Then(IF s._max_table_width # NoneInt /\ s._max_table_width # 0
         THEN Then(_compute_table_width(s1, options), LAMBDA table_width :
              Then(per_col_padding * Len(widths) + Len(widths) - 1,
                   LAMBDA markup_chars :
              IF table_width > s._max_table_width
              THEN IF table_width = markup_chars
                   THEN Raise(s1, "ZeroDivisionError")
                   ELSE Ok([s1 EXCEPT !._widths =
                               [i \in 1..Len(widths) |->
                                   Max(1, Scaled(widths[i],
                                                 s._max_table_width - markup_chars,
                                                 table_width - markup_chars))]])
              ELSE Ok(s1)))
         ELSE Ok(s1), LAMBDA r :
    IF r.result # "ok" THEN r
    ELSE IF (s._min_table_width # NoneInt /\ s._min_table_width # 0)
            \/ (options.title # "None" /\ options.title # "")
         THEN GrowWidths(r.s, widths, options)
         ELSE r))))

\* self._max_table_width and self._min_table_width are read from the
\* table, not from the options
_compute_widths(s, rows, options) ==
    Then(WidthsAfterRows(s,
             IF options.header /\ options.use_header_width
             THEN [i \in 1..Len(s._field_names) |-> Len(s._field_names[i])]
             ELSE [i \in 1..Len(s._field_names) |-> 0],
             rows, 1), LAMBDA widths :
    Then([s EXCEPT !._widths = widths], LAMBDA s1 :
    Then(Sum(_get_padding_widths(options)), LAMBDA per_col_padding :
    Then(IF s._max_table_width # NoneInt /\ s._max_table_width # 0
         THEN Then(_compute_table_width(s1, options), LAMBDA table_width :
              Then(per_col_padding * Len(widths) + Len(widths) - 1,
                   LAMBDA markup_chars :
              IF table_width > s._max_table_width
              THEN IF table_width = markup_chars
                   THEN Raise(s1, "ZeroDivisionError")
                   ELSE Ok([s1 EXCEPT !._widths =
                               [i \in 1..Len(widths) |->
                                   Max(1, Scaled(widths[i],
                                                 s._max_table_width - markup_chars,
                                                 table_width - markup_chars))]])
              ELSE Ok(s1)))
         ELSE Ok(s1), LAMBDA r :
    IF r.result # "ok" THEN r
    ELSE IF (s._min_table_width # NoneInt /\ s._min_table_width # 0)
            \/ (options.title # "None" /\ options.title # "")
         THEN GrowWidths(r.s, widths, options)
         ELSE r))))

\* options[where + name] for the junction character called name
JunctionOption(options, where, name) ==
    IF name = "left_junction_char"
    THEN IF where = "top_" THEN options.top_left_junction_char
         ELSE IF where = "bottom_" THEN options.bottom_left_junction_char
         ELSE options.left_junction_char
    ELSE IF name = "right_junction_char"
    THEN IF where = "top_" THEN options.top_right_junction_char
         ELSE IF where = "bottom_" THEN options.bottom_right_junction_char
         ELSE options.right_junction_char
    ELSE IF where = "top_" THEN options.top_junction_char
         ELSE IF where = "bottom_" THEN options.bottom_junction_char
         ELSE options.junction_char

\* the part of a rule above or below one column
HruleLine(s, options, field, width) ==
    Then(Rep(options.horizontal_char,
             width + Sum(_get_padding_widths(options))), LAMBDA line :
    IF s._horizontal_align_char # "None" /\ s._horizontal_align_char # ""
    THEN Then(IF s._align[field] \in {"l", "c"}
              THEN " " \o s._horizontal_align_char \o PyFrom(line, 2)
              ELSE line, LAMBDA line1 :
         IF s._align[field] \in {"c", "r"}
         THEN PyDropLast(line1, 2) \o s._horizontal_align_char \o " "
         ELSE line1)
    ELSE line)

\* for field, width in zip(self._field_names, self._widths): ...
RECURSIVE HruleBits(_, _, _, _, _)
HruleBits(s, options, where, bits, i) ==
    IF i > Len(s._field_names) \/ i > Len(s._widths) THEN bits
    ELSE IF ~Displayed(options, s._field_names[i])
         THEN HruleBits(s, options, where, bits, i + 1)
         ELSE Then(bits \o <<HruleLine(s, options, s._field_names[i], s._widths[i]),
                             IF options.vrules = ALL
                             THEN JunctionOption(options, where, "junction_char")
                             ELSE options.horizontal_char>>, LAMBDA more :
              HruleBits(s, options, where, more, i + 1))

_stringify_hrule(s, options, where) ==
    IF ~options.border /\ ~options.preserve_internal_border THEN ""
    ELSE Then(IF options.vrules \in {ALL, FRAME}
              THEN <<JunctionOption(options, where, "left_junction_char")>>
              ELSE <<options.horizontal_char>>, LAMBDA first :
         IF s._field_names = <<>>
         THEN Join(first \o <<JunctionOption(options, where, "right_junction_char")>>)
         ELSE Then(HruleBits(s, options, where, first, 1), LAMBDA bits :
              Then(IF options.vrules \in {ALL, FRAME}
                   THEN SubSeq(bits, 1, Len(bits) - 1)
                        \o <<JunctionOption(options, where, "right_junction_char")>>
                   ELSE bits, LAMBDA closed :
              IF options.preserve_internal_border /\ ~options.border
              THEN Join(SubSeq(closed, 2, Len(closed) - 1))
              ELSE Join(closed))))

\* ------------------------------------------------------------ the text
\* _justify that puts the odd space of centred text always on the left
_justify_extra_left(text, width, align) ==
    Then(width - Len(text), LAMBDA excess :
    IF align = "l" THEN text \o Rep(" ", excess)
    ELSE IF align = "r" THEN Rep(" ", excess) \o text
    ELSE IF excess % 2 # 0
         THEN Rep(" ", excess \div 2 + 1) \o text \o Rep(" ", excess \div 2)
         ELSE Rep(" ", excess \div 2) \o text \o Rep(" ", excess \div 2))

\* The display width of a string of the model is its length: every
\* character of the model is one column wide.
_justify(text, width, align) ==
    Then(width - Len(text), LAMBDA excess :
    IF align = "l" THEN text \o Rep(" ", excess)
    ELSE IF align = "r" THEN Rep(" ", excess) \o text
    ELSE IF excess % 2 # 0
         THEN IF Len(text) % 2 # 0
              THEN Rep(" ", excess \div 2) \o text \o Rep(" ", excess \div 2 + 1)
              ELSE Rep(" ", excess \div 2 + 1) \o text \o Rep(" ", excess \div 2)
         ELSE Rep(" ", excess \div 2) \o text \o Rep(" ", excess \div 2))

\* textwrap.fill(line, width).split("\n") for a line without white space or
\* hyphens: the line cut into pieces of width characters
RECURSIVE Fill(_, _)
Fill(line, width) ==
    IF Len(line) <= width THEN <<line>>
    ELSE <<SubSeq(line, 1, width)>> \o Fill(PyFrom(line, width), width)

\* sep.join(bits)
RECURSIVE JoinWith(_, _)
JoinWith(bits, sep) ==
    IF bits = <<>> THEN ""
    ELSE IF Len(bits) = 1 THEN Head(bits)
    ELSE Head(bits) \o sep \o JoinWith(Tail(bits), sep)

\* text.split("\n")
RECURSIVE SplitLines(_, _, _)
SplitLines(text, from, i) ==
    Then({j \in i..Len(text) : SubSeq(text, j, j) = "\n"}, LAMBDA breaks :
    IF breaks = {} THEN <<SubSeq(text, from, Len(text))>>
    ELSE Then(CHOOSE j \in breaks : \A k \in breaks : j <= k, LAMBDA next :
         <<SubSeq(text, from, next - 1)>> \o SplitLines(text, next + 1, next + 1)))


\* The lines of one cell of a row: the none_format put in, and a line wider
\* than the column wrapped.  The cells of the model hold no line break.
CellLines(s, field, value, width) ==
    Then(IF value = "None" /\ field \in DOMAIN s._none_format
            /\ s._none_format[field] # "None"
         THEN s._none_format[field] ELSE value, LAMBDA line :
    IF Len(line) > width THEN Fill(line, width) ELSE <<line>>)

\* textwrap raises ValueError for a width that is not positive
CellRaises(s, field, value, width) ==
    /\ width <= 0
    /\ Len(IF value = "None" /\ field \in DOMAIN s._none_format
              /\ s._none_format[field] # "None"
           THEN s._none_format[field] ELSE value) > width

\* the lines of a cell padded to the height of the row as valign says
VAligned(lines, row_height, valign) ==
    Then(row_height - Len(lines), LAMBDA d_height :
    IF valign = "m"
    THEN [k \in 1..(d_height \div 2) |-> ""] \o lines
         \o [k \in 1..(d_height - d_height \div 2) |-> ""]
    ELSE IF valign = "b" THEN [k \in 1..d_height |-> ""] \o lines
    ELSE lines \o [k \in 1..d_height |-> ""])

\* bits[y] after the loop over the fields: cells[i] holds the padded lines
\* of column i
RECURSIVE RowBits(_, _, _, _, _, _)
RowBits(s, options, cells, y, bits, i) ==
    IF i > Len(cells) THEN bits
    ELSE IF ~Displayed(options, s._field_names[i])
         THEN RowBits(s, options, cells, y, bits, i + 1)
         ELSE Then(bits
                   \o <<Rep(" ", _get_padding_widths(options)[1])
                        \o _justify(cells[i][y], s._widths[i],
                                    s._align[s._field_names[i]])
                        \o Rep(" ", _get_padding_widths(options)[2])>>
                   \o (IF options.border \/ options.preserve_internal_border
                       THEN <<IF options.vrules = ALL THEN s._vertical_char
                              ELSE " ">>
                       ELSE <<>>), LAMBDA more :
              RowBits(s, options, cells, y, more, i + 1))

\* One row as text.  The characters the loops write are self.vertical_char;
\* the one that closes a line under FRAME is options["vertical_char"].  The
\* separator that ends a line is taken back on bits[-1] only, the last line
\* of the row.
_stringify_row(s, row, options, hrule) ==
    Then(Min(Len(row), Min(Len(s._field_names), Len(s._widths))), LAMBDA n :
    IF \E i \in 1..n : CellRaises(s, s._field_names[i], row[i], s._widths[i])
    THEN [result |-> "ValueError", text |-> ""]
    ELSE
    Then([i \in 1..Len(row) |->
            IF i <= n
            THEN CellLines(s, s._field_names[i], row[i], s._widths[i])
            ELSE <<row[i]>>], LAMBDA wrapped :
    Then(IF wrapped = <<>> THEN 0
         ELSE CHOOSE h \in {Len(wrapped[i]) : i \in 1..Len(wrapped)} :
                \A i \in 1..Len(wrapped) : Len(wrapped[i]) <= h,
         LAMBDA row_height :
    Then([i \in 1..n |->
            VAligned(wrapped[i], row_height, s._valign[s._field_names[i]])],
         LAMBDA cells :
    Then([y \in 1..row_height |->
            RowBits(s, options, cells, y,
                    IF options.border
                    THEN <<IF options.vrules \in {ALL, FRAME}
                           THEN s._vertical_char ELSE " ">>
                    ELSE <<>>, 1)], LAMBDA bits :
    IF ~options.border /\ options.preserve_internal_border
       /\ (bits = <<>> \/ bits[Len(bits)] = <<>>)
    THEN [result |-> "IndexError", text |-> ""]
    ELSE
    Then(IF ~options.border /\ options.preserve_internal_border
         THEN [bits EXCEPT ![Len(bits)] = SubSeq(@, 1, Len(@) - 1) \o <<" ">>]
         ELSE bits, LAMBDA bits1 :
    Then(IF options.border /\ options.vrules = FRAME
         THEN [y \in 1..row_height |->
                 SubSeq(bits1[y], 1, Len(bits1[y]) - 1)
                 \o <<options.vertical_char>>]
         ELSE bits1, LAMBDA bits2 :
    IF options.border /\ options.hrules = ALL /\ bits2 = <<>>
    THEN [result |-> "IndexError", text |-> ""]
    ELSE
    Then(IF options.border /\ options.hrules = ALL
         THEN [bits2 EXCEPT ![row_height] = @ \o <<"\n", hrule>>]
         ELSE bits2, LAMBDA bits3 :
    [result |-> "ok",
     text |-> JoinWith([y \in 1..row_height |-> Join(bits3[y])], "\n")]))))))))

\* self.left_junction_char + line[1:-1] + self.right_junction_char: the
\* junction characters are one character long
WithSideJunctions(s, line) ==
    OrElse(s._left_junction_char, s._junction_char)
    \o SubSeq(line, 2, Len(line) - 1)
    \o OrElse(s._right_junction_char, s._junction_char)

\* the rule above the header, or above the rows of a table without header
TopRule(s, options) ==
    IF options.title # "None" /\ options.title # ""
       /\ options.vrules \in {ALL, FRAME}
    THEN WithSideJunctions(s, _stringify_hrule(s, options, "top_"))
    ELSE _stringify_hrule(s, options, "top_")

_stringify_title(s, title, options) ==
    Then(IF options.border /\ options.vrules \in {ALL, FRAME}
         THEN <<_stringify_hrule(s, [options EXCEPT !.vrules = FRAME], "top_")>>
         ELSE <<>>, LAMBDA lines :
    Then(IF options.vrules \in {ALL, FRAME} /\ options.border
         THEN options.vertical_char ELSE " ", LAMBDA endpoint :
    Then(Sum([i \in 1..Len(s._widths) |->
                s._widths[i] + Sum(_get_padding_widths(options)) + 1]),
         LAMBDA sum_widths :
    JoinWith(lines
             \o <<endpoint
                  \o _justify(Rep(" ", _get_padding_widths(options)[1]) \o title
                              \o Rep(" ", _get_padding_widths(options)[2]),
                              sum_widths - 1, "c")
                  \o endpoint>>, "\n"))))

\* for field, width in zip(self._field_names, self._widths): ...
\* self._header_style is None in every state of the model
RECURSIVE HeaderBits(_, _, _, _)
HeaderBits(s, options, bits, i) ==
    IF i > Len(s._field_names) \/ i > Len(s._widths) THEN bits
    ELSE IF ~Displayed(options, s._field_names[i])
         THEN HeaderBits(s, options, bits, i + 1)
         ELSE Then(bits
                   \o <<Rep(" ", _get_padding_widths(options)[1])
                        \o _justify(IF Len(s._field_names[i]) > s._widths[i]
                                    THEN SubSeq(s._field_names[i], 1, s._widths[i])
                                    ELSE s._field_names[i],
                                    s._widths[i], s._align[s._field_names[i]])
                        \o Rep(" ", _get_padding_widths(options)[2])>>
                   \o (IF options.border \/ options.preserve_internal_border
                       THEN <<IF options.vrules = ALL THEN options.vertical_char
                              ELSE " ">>
                       ELSE <<>>), LAMBDA more :
              HeaderBits(s, options, more, i + 1))

\* bits.pop() raises IndexError when nothing was appended
_stringify_header(s, options) ==
    Then((IF options.border
          THEN (IF options.hrules \in {ALL, FRAME}
                THEN <<TopRule(s, options), "\n">> ELSE <<>>)
               \o <<IF options.vrules \in {ALL, FRAME}
                    THEN options.vertical_char ELSE " ">>
          ELSE <<>>)
         \o (IF s._field_names = <<>>
             THEN <<IF options.vrules \in {ALL, FRAME}
                    THEN options.vertical_char ELSE " ">>
             ELSE <<>>), LAMBDA first :
    Then(HeaderBits(s, options, first, 1), LAMBDA bits :
    IF ~options.border /\ options.preserve_internal_border /\ bits = <<>>
    THEN [result |-> "IndexError", text |-> ""]
    ELSE
    Then(IF ~options.border /\ options.preserve_internal_border
         THEN SubSeq(bits, 1, Len(bits) - 1) \o <<" ">> ELSE bits, LAMBDA bits1 :
    Then(IF options.border /\ options.vrules = FRAME
         THEN SubSeq(bits1, 1, Len(bits1) - 1) \o <<options.vertical_char>>
         ELSE bits1, LAMBDA bits2 :
    [result |-> "ok",
     text |-> Join(IF (options.border \/ options.preserve_internal_border)
                      /\ options.hrules # NONE
                   THEN bits2 \o <<"\n", s._hrule>> ELSE bits2)]))))

\* the dividers that go with the rows to print
_get_dividers(s, options) ==
    Then(IF options.oldsortslice
         THEN PySlice(s._dividers, options.start, options.end)
         ELSE s._dividers, LAMBDA dividers :
    IF options.sortby # "None" /\ options.sortby # ""
    THEN [i \in 1..Len(dividers) |-> FALSE] ELSE dividers)

\* for row, divider in zip(formatted_rows[:-1], dividers[:-1]): ...
RECURSIVE RowLines(_, _, _, _, _, _)
RowLines(s, options, rows, dividers, lines, i) ==
    IF i > Min(Len(rows), Len(dividers)) - 1
    THEN [result |-> "ok", lines |-> lines]
    ELSE Then(_stringify_row(s, rows[i], options, s._hrule), LAMBDA r :
         IF r.result # "ok" THEN [result |-> r.result, lines |-> <<>>]
         ELSE RowLines(s, options, rows, dividers,
                       lines \o <<r.text>>
                       \o (IF dividers[i]
                           THEN <<_stringify_hrule(s, options, "")>> ELSE <<>>),
                       i + 1))

\* the lines of all rows, the last one closed by the bottom rule
AllRowLines(s, options, rows, dividers, lines) ==
    Then(RowLines(s, options, rows, dividers, lines, 1), LAMBDA r :
    IF r.result # "ok" \/ rows = <<>> THEN r
    ELSE Then(_stringify_row(s, rows[Len(rows)], options,
                             _stringify_hrule(s, options, "bottom_")),
              LAMBDA last :
         IF last.result # "ok" THEN [result |-> last.result, lines |-> <<>>]
         ELSE [result |-> "ok", lines |-> r.lines \o <<last.text>>]))

\* "|" + new_line[1:-1] + "|" for every line of the table
OrgmodeLines(lines) ==
    Then(SplitLines(JoinWith(lines, "\n"), 1, 1), LAMBDA all :
    [i \in 1..Len(all) |-> "|" \o SubSeq(all[i], 2, Len(all[i]) - 1) \o "|"])

\* The text of the table, put together after the widths and the rule were
\* written to the table: title, header or top rule, rows, bottom rule.
get_string_lines(s, options, formatted_rows, dividers) ==
    Then(OrElse(options.title, s._title), LAMBDA title :
    Then(IF title # "None" /\ title # ""
         THEN <<_stringify_title(s, title, options)>> ELSE <<>>, LAMBDA lines :
    Then(IF options.header THEN _stringify_header(s, options)
         ELSE [result |-> "ok", text |-> ""], LAMBDA head :
    IF head.result # "ok" THEN [result |-> head.result, text |-> "None"]
    ELSE
    Then(lines \o (IF options.header THEN <<head.text>>
                   ELSE IF options.border /\ options.hrules \in {ALL, FRAME}
                   THEN <<IF title # "None" /\ title # ""
                             /\ options.vrules \in {ALL, FRAME}
                          THEN WithSideJunctions(s,
                                   _stringify_hrule(s, options, "top_"))
                          ELSE _stringify_hrule(s, options, "top_")>>
                   ELSE <<>>), LAMBDA lines1 :
    Then(AllRowLines(s, options, formatted_rows, dividers, lines1), LAMBDA body :
    IF body.result # "ok" THEN [result |-> body.result, text |-> "None"]
    ELSE
    Then(IF options.border /\ options.hrules = FRAME
         THEN body.lines \o <<_stringify_hrule(s, options, "bottom_")>>
         ELSE body.lines, LAMBDA lines2 :
    [result |-> "ok",
     text |-> JoinWith(IF s.orgmode THEN OrgmodeLines(lines2) ELSE lines2,
                       "\n")]))))))

\* get_string that keeps the options of the call on the table
get_string_keeps_options(s, kwargs) ==
    IF \E option \in DOMAIN kwargs : ~_validate_option(s, option, kwargs[option])
    THEN Raise(s, "ValueError")
    ELSE Then(_get_options(s, kwargs), LAMBDA options :
         Then([s EXCEPT !._sortby = options.sortby, !._title = options.title,
                        !._start = options.start, !._end = options.end,
                        !._fields = options.fields,
                        !._row_filter = options.row_filter,
                        !._reversesort = options.reversesort], LAMBDA kept :
         IF Len(s._rows) = 0 /\ (~options.print_empty \/ ~options.border)
         THEN Returns(kept, "")
         ELSE Then(_get_rows(kept, options), LAMBDA got :
              IF got.result # "ok" THEN Raise(kept, got.result)
              ELSE Then(_format_rows(kept, got.rows), LAMBDA formatted_rows :
                   Then(_compute_widths(kept, formatted_rows, options), LAMBDA r :
                   IF r.result # "ok" THEN r
                   ELSE Then([r.s EXCEPT
                                !._hrule = _stringify_hrule(r.s, options, "")],
                             LAMBDA s1 :
                        Then(get_string_lines(s1, options, formatted_rows,
                                              _get_dividers(s1, options)),
                             LAMBDA out :
                        [s |-> s1, result |-> out.result,
                         text |-> out.text])))))))

\* A render call: what it writes to the table (the widths and the rule)
\* and the text it returns.
get_string(s, kwargs) ==
    IF \E option \in DOMAIN kwargs : ~_validate_option(s, option, kwargs[option])
    THEN Raise(s, "ValueError")
    ELSE Then(_get_options(s, kwargs), LAMBDA options :
         IF Len(s._rows) = 0 /\ (~options.print_empty \/ ~options.border)
         THEN Returns(s, "")
         ELSE Then(_get_rows(s, options), LAMBDA got :
              IF got.result # "ok" THEN Raise(s, got.result)
              ELSE Then(_format_rows(s, got.rows), LAMBDA formatted_rows :
                   Then(_compute_widths(s, formatted_rows, options), LAMBDA r :
                   IF r.result # "ok" THEN r
                   ELSE Then([r.s EXCEPT
                                !._hrule = _stringify_hrule(r.s, options, "")],
                             LAMBDA s1 :
                        Then(get_string_lines(s1, options, formatted_rows,
                                              _get_dividers(s1, options)),
                             LAMBDA out :
                        [s |-> s1, result |-> out.result,
                         text |-> out.text]))))))

max_table_width_setter(s, val) ==
    IF ~_validate_nonnegative_int(val) THEN Raise(s, "ValueError")
    ELSE Ok([s EXCEPT !._max_table_width = val])

min_table_width_setter(s, val) ==
    IF ~_validate_nonnegative_int(val) THEN Raise(s, "ValueError")
    ELSE Ok([s EXCEPT !._min_table_width = val])

_validate_vrules(val) == val \in {FRAME, ALL, NONE}

vrules_setter(s, val) ==
    IF ~_validate_vrules(val) THEN Raise(s, "ValueError")
    ELSE Ok([s EXCEPT !._vrules = val])

vertical_char_setter(s, val) ==
    IF Len(val) # 1 THEN Raise(s, "ValueError")
    ELSE Ok([s EXCEPT !._vertical_char = val])

junction_char_setter(s, val) ==
    IF Len(val) # 1 THEN Raise(s, "ValueError")
    ELSE Ok([s EXCEPT !._junction_char = val])

\* the setters of the eight position-specific junction characters:
\* val = str(val), then one character is asked for
position_junction_char_setter(s, where, val) ==
    IF Len(val) # 1 THEN Raise(s, "ValueError")
    ELSE Ok(IF where = "top" THEN [s EXCEPT !._top_junction_char = val]
            ELSE IF where = "bottom" THEN [s EXCEPT !._bottom_junction_char = val]
            ELSE IF where = "right" THEN [s EXCEPT !._right_junction_char = val]
            ELSE IF where = "left" THEN [s EXCEPT !._left_junction_char = val]
            ELSE IF where = "top_right"
                 THEN [s EXCEPT !._top_right_junction_char = val]
            ELSE IF where = "top_left"
                 THEN [s EXCEPT !._top_left_junction_char = val]
            ELSE IF where = "bottom_right"
                 THEN [s EXCEPT !._bottom_right_junction_char = val]
            ELSE [s EXCEPT !._bottom_left_junction_char = val])

horizontal_align_char_setter(s, val) ==
    IF Len(val) # 1 THEN Raise(s, "ValueError")
    ELSE Ok([s EXCEPT !._horizontal_align_char = val])

\* ------------------------------------------------------------- paginate
\* kwargs[option] = val
WithOption(kwargs, option, val) == (option :> val) @@ kwargs

\* The `while True` loop of paginate: one page per turn, until the end of
\* the page is true_end.
RECURSIVE PaginateLoop(_, _, _, _, _)
PaginateLoop(s, kwargs, true_end, page_length, pages) ==
    Then(WithOption(kwargs, "end", Min(kwargs.start + page_length, true_end)),
         LAMBDA page :
    Then(get_string(s, page), LAMBDA r :
    IF r.result # "ok" THEN Raise(r.s, r.result)
    ELSE IF page.end = true_end
         THEN Returns(r.s, JoinWith(pages \o <<r.text>>, "\f"))
         ELSE PaginateLoop(r.s,
                           WithOption(page, "start", page.start + page_length),
                           true_end, page_length, pages \o <<r.text>>)))

\* paginate that returns after its first page
paginate_one_page(s, page_length, kwargs) ==
    Then(get_string(s, WithOption(WithOption(kwargs, "start",
                                             Given(kwargs, "start", 0)),
                                  "end",
                                  Min(Given(kwargs, "start", 0) + page_length,
                                      Given(kwargs, "end", Len(s._rows))))),
         LAMBDA r :
    IF r.result # "ok" THEN Raise(r.s, r.result) ELSE Returns(r.s, r.text))

\* table.paginate(page_length, **kwargs), with the default line_break;
\* self.rowcount is len(self._rows)
paginate(s, page_length, kwargs) ==
    PaginateLoop(s, WithOption(kwargs, "start", Given(kwargs, "start", 0)),
                 Given(kwargs, "end", Len(s._rows)), page_length, <<>>)

\* ---------------------------------------------------------------- LaTeX
\* [field for field in self._field_names if field in options["fields"]],
\* or all field names when options["fields"] is empty
WantedFields(s, options) ==
    SelectSeq(s._field_names, LAMBDA field : Displayed(options, field))

\* [d for f, d in zip(self._field_names, row) if f in wanted_fields]
RECURSIVE WantedData(_, _, _, _)
WantedData(s, options, row, i) ==
    IF i > Min(Len(s._field_names), Len(row)) THEN <<>>
    ELSE (IF s._field_names[i] \in Range(WantedFields(s, options))
          THEN <<row[i]>> ELSE <<>>)
         \o WantedData(s, options, row, i + 1)

\* the alignment letters of the wanted fields
WantedAlignments(s, options) ==
    [i \in 1..Len(WantedFields(s, options)) |->
        s._align[WantedFields(s, options)[i]]]

\* the lines of the data rows without rules
RECURSIVE LatexSimpleRows(_, _, _, _)
LatexSimpleRows(s, options, formatted_rows, i) ==
    IF i > Len(formatted_rows) THEN <<>>
    ELSE <<JoinWith(WantedData(s, options, formatted_rows[i], 1), " & ")
           \o " \\\\">>
         \o LatexSimpleRows(s, options, formatted_rows, i + 1)

_get_simple_latex_string(s, options) ==
    Then(_get_rows(s, options), LAMBDA got :
    IF got.result # "ok" THEN Raise(s, got.result)
    ELSE Returns(s, JoinWith(
        <<"\\begin{tabular}{" \o Join(WantedAlignments(s, options)) \o "}">>
        \o (IF options.header
            THEN <<JoinWith(WantedFields(s, options), " & ") \o " \\\\">>
            ELSE <<>>)
        \o LatexSimpleRows(s, options, _format_rows(s, got.rows), 1)
        \o <<"\\end{tabular}">>, "\r\n")))

\* the lines of the data rows, each followed by a rule under a border with
\* hrules ALL
RECURSIVE LatexRows(_, _, _, _)
LatexRows(s, options, formatted_rows, i) ==
    IF i > Len(formatted_rows) THEN <<>>
    ELSE <<JoinWith(WantedData(s, options, formatted_rows[i], 1), " & ")
           \o " \\\\">>
         \o (IF options.border /\ options.hrules = ALL
             THEN <<"\\hline">> ELSE <<>>)
         \o LatexRows(s, options, formatted_rows, i + 1)

\* the column specification of \begin{tabular}
LatexAlignment(s, options) ==
    Then(IF options.border /\ options.vrules = ALL
         THEN JoinWith(WantedAlignments(s, options), "|")
         ELSE IF ~options.border /\ options.preserve_internal_border
         THEN JoinWith(WantedAlignments(s, options), "|")
         ELSE Join(WantedAlignments(s, options)), LAMBDA alignment_str :
    IF options.border /\ options.vrules \in {ALL, FRAME}
    THEN "|" \o alignment_str \o "|"
    ELSE alignment_str)

\* The rule after the header is appended outside `if options["header"]`.
_get_formatted_latex_string(s, options) ==
    Then(_get_rows(s, options), LAMBDA got :
    IF got.result # "ok" THEN Raise(s, got.result)
    ELSE Returns(s, JoinWith(
        <<"\\begin{tabular}{" \o LatexAlignment(s, options) \o "}">>
        \o (IF options.border /\ options.hrules \in {ALL, FRAME}
            THEN <<"\\hline">> ELSE <<>>)
        \o (IF options.header
            THEN <<JoinWith(WantedFields(s, options), " & ") \o " \\\\">>
            ELSE <<>>)
        \o (IF (options.border \/ options.preserve_internal_border)
               /\ options.hrules \in {ALL, HEADER}
            THEN <<"\\hline">> ELSE <<>>)
        \o LatexRows(s, options, _format_rows(s, got.rows), 1)
        \o (IF options.border /\ options.hrules = FRAME
            THEN <<"\\hline">> ELSE <<>>)
        \o <<"\\end{tabular}">>, "\r\n")))

\* options["format"]: the keyword of the call, or the format of the table,
\* which is False in every state of the model
FormatOption(kwargs) == Given(kwargs, "format", FALSE)

get_latex_string(s, kwargs) ==
    IF \E option \in DOMAIN kwargs : ~_validate_option(s, option, kwargs[option])
    THEN Raise(s, "ValueError")
    ELSE Then(_get_options(s, kwargs), LAMBDA options :
         IF FormatOption(kwargs)
         THEN _get_formatted_latex_string(s, options)
         ELSE _get_simple_latex_string(s, options))

\* ------------------------------------------------------------ construction
NoKwargs ==
    [align |-> "None", valign |-> "None", max_width |-> NoneInt,
     min_width |-> NoneInt, int_format |-> "None", float_format |-> "None",
     custom_format |-> [kind |-> "none"], none_format |-> "None"]

\* the keyword arguments a table of the model is constructed with
KwargsChoices ==
    {NoKwargs,
     [NoKwargs EXCEPT !.align = "r", !.valign = "m", !.max_width = 2]}

\* PrettyTable(**kwargs) without field names; _hrule does not exist before
\* the first render, which is modelled as None
InitWith(kwargs) ==
    /\ _kwargs = kwargs
    /\ _field_names = <<>>
    /\ _rows = <<>>
    /\ _dividers = <<>>
    /\ _align = (BASE_ALIGN_VALUE :> (IF _kwargs.align # "None" THEN _kwargs.align ELSE "c"))
    /\ _valign = EmptyDict
    /\ _max_width = EmptyDict
    /\ _min_width = EmptyDict
    /\ _int_format = EmptyDict
    /\ _float_format = EmptyDict
    /\ _custom_format = EmptyDict
    /\ _none_format = EmptyDict
    /\ _title = "None"
    /\ _start = 0
    /\ _end = NoneInt
    /\ _fields = <<>>
    /\ _header = TRUE
    /\ _use_header_width = TRUE
    /\ _header_style = "None"
    /\ _border = TRUE
    /\ _preserve_internal_border = FALSE
    /\ _hrules = FRAME
    /\ _vrules = ALL
    /\ _sortby = "None"
    /\ _reversesort = FALSE
    /\ _sort_key = "identity"
    /\ _row_filter = "true"
    /\ _min_table_width = NoneInt
    /\ _max_table_width = NoneInt
    /\ _padding_width = 1
    /\ _left_padding_width = NoneInt
    /\ _right_padding_width = NoneInt
    /\ _vertical_char = "|"
    /\ _horizontal_char = "-"
    /\ _horizontal_align_char = "None"
    /\ _junction_char = "+"
    /\ _top_junction_char = "None"
    /\ _bottom_junction_char = "None"
    /\ _right_junction_char = "None"
    /\ _left_junction_char = "None"
    /\ _top_right_junction_char = "None"
    /\ _top_left_junction_char = "None"
    /\ _bottom_right_junction_char = "None"
    /\ _bottom_left_junction_char = "None"
    /\ _print_empty = TRUE
    /\ _oldsortslice = FALSE
    /\ _break_on_hyphens = TRUE
    /\ _style = NoneInt
    /\ orgmode = FALSE
    /\ _widths = <<>>
    /\ _hrule = "None"
    /\ call = [op |-> "__init__", arg |-> <<>>, result |-> "ok"]
    /\ returned = "None"
    /\ renders = {}
    /\ before = Self
    /\ ncalls = 0
    /\ new = <<>>

\* the attributes of a table before __init__ looks at its arguments
NewTable ==
    [_field_names |-> <<>>,
     _rows |-> <<>>,
     _dividers |-> <<>>,
     _align |-> (BASE_ALIGN_VALUE :> "c"),
     _valign |-> EmptyDict,
     _max_width |-> EmptyDict,
     _min_width |-> EmptyDict,
     _int_format |-> EmptyDict,
     _float_format |-> EmptyDict,
     _custom_format |-> EmptyDict,
     _none_format |-> EmptyDict,
     _kwargs |-> NoKwargs,
     _title |-> "None",
     _start |-> 0,
     _end |-> NoneInt,
     _fields |-> <<>>,
     _header |-> TRUE,
     _use_header_width |-> TRUE,
     _header_style |-> "None",
     _border |-> TRUE,
     _preserve_internal_border |-> FALSE,
     _hrules |-> FRAME,
     _vrules |-> ALL,
     _sortby |-> "None",
     _reversesort |-> FALSE,
     _sort_key |-> "identity",
     _row_filter |-> "true",
     _min_table_width |-> NoneInt,
     _max_table_width |-> NoneInt,
     _padding_width |-> 1,
     _left_padding_width |-> NoneInt,
     _right_padding_width |-> NoneInt,
     _vertical_char |-> "|",
     _horizontal_char |-> "-",
     _horizontal_align_char |-> "None",
     _junction_char |-> "+",
     _top_junction_char |-> "None",
     _bottom_junction_char |-> "None",
     _right_junction_char |-> "None",
     _left_junction_char |-> "None",
     _top_right_junction_char |-> "None",
     _top_left_junction_char |-> "None",
     _bottom_right_junction_char |-> "None",
     _bottom_left_junction_char |-> "None",
     _print_empty |-> TRUE,
     _oldsortslice |-> FALSE,
     _break_on_hyphens |-> TRUE,
     _style |-> NoneInt,
     orgmode |-> FALSE,
     _widths |-> <<>>,
     _hrule |-> "None"]

\* the table is s
Is(s) ==
    /\ _field_names = s._field_names
    /\ _rows = s._rows
    /\ _dividers = s._dividers
    /\ _align = s._align
    /\ _valign = s._valign
    /\ _max_width = s._max_width
    /\ _min_width = s._min_width
    /\ _int_format = s._int_format
    /\ _float_format = s._float_format
    /\ _custom_format = s._custom_format
    /\ _none_format = s._none_format
    /\ _kwargs = s._kwargs
    /\ _title = s._title
    /\ _start = s._start
    /\ _end = s._end
    /\ _fields = s._fields
    /\ _header = s._header
    /\ _use_header_width = s._use_header_width
    /\ _header_style = s._header_style
    /\ _border = s._border
    /\ _preserve_internal_border = s._preserve_internal_border
    /\ _hrules = s._hrules
    /\ _vrules = s._vrules
    /\ _sortby = s._sortby
    /\ _reversesort = s._reversesort
    /\ _sort_key = s._sort_key
    /\ _row_filter = s._row_filter
    /\ _min_table_width = s._min_table_width
    /\ _max_table_width = s._max_table_width
    /\ _padding_width = s._padding_width
    /\ _left_padding_width = s._left_padding_width
    /\ _right_padding_width = s._right_padding_width
    /\ _vertical_char = s._vertical_char
    /\ _horizontal_char = s._horizontal_char
    /\ _horizontal_align_char = s._horizontal_align_char
    /\ _junction_char = s._junction_char
    /\ _top_junction_char = s._top_junction_char
    /\ _bottom_junction_char = s._bottom_junction_char
    /\ _right_junction_char = s._right_junction_char
    /\ _left_junction_char = s._left_junction_char
    /\ _top_right_junction_char = s._top_right_junction_char
    /\ _top_left_junction_char = s._top_left_junction_char
    /\ _bottom_right_junction_char = s._bottom_right_junction_char
    /\ _bottom_left_junction_char = s._bottom_left_junction_char
    /\ _print_empty = s._print_empty
    /\ _oldsortslice = s._oldsortslice
    /\ _break_on_hyphens = s._break_on_hyphens
    /\ _style = s._style
    /\ orgmode = s.orgmode
    /\ _widths = s._widths
    /\ _hrule = s._hrule

\* PrettyTable(field_names, **kwargs): the field names are set first, while
\* self._kwargs is still empty; `kwargs[option] or default` takes the default
\* for every option given as 0, vrules=FRAME included
__init__(field_names, kwargs) ==
    Then(IF field_names # <<>> THEN field_names_setter(NewTable, field_names).s
         ELSE NewTable, LAMBDA s1 :
    _column_specific_args(
        [s1 EXCEPT
           !._kwargs = [NoKwargs EXCEPT
                          !.max_width = Given(kwargs, "max_width", NoneInt),
                          !.min_width = Given(kwargs, "min_width", NoneInt),
                          !.valign = Given(kwargs, "valign", "None")],
           !._header = Given(kwargs, "header", TRUE),
           !._border = Given(kwargs, "border", TRUE),
           !._preserve_internal_border =
               Given(kwargs, "preserve_internal_border", FALSE),
           !._hrules = IF Given(kwargs, "hrules", 0) # 0 THEN kwargs.hrules
                       ELSE FRAME,
           !._vrules = IF Given(kwargs, "vrules", 0) # 0 THEN kwargs.vrules
                       ELSE ALL,
           !._min_table_width =
               IF Given(kwargs, "min_table_width", 0) # 0
               THEN kwargs.min_table_width ELSE NoneInt,
           !._max_table_width =
               IF Given(kwargs, "max_table_width", 0) # 0
               THEN kwargs.max_table_width ELSE NoneInt,
           !._padding_width = Given(kwargs, "padding_width", 1),
           !._left_padding_width =
               IF Given(kwargs, "left_padding_width", 0) # 0
               THEN kwargs.left_padding_width ELSE NoneInt,
           !._right_padding_width =
               IF Given(kwargs, "right_padding_width", 0) # 0
               THEN kwargs.right_padding_width ELSE NoneInt]))

\* PrettyTable()
Init == InitWith(NoKwargs)

\* PrettyTable(align=..., valign=..., max_width=...)
InitKwargs == \E kwargs \in KwargsChoices : InitWith(kwargs)

\* the field names and the keyword arguments the tables that are rendered
\* are constructed with
TableFieldNames == {<<"a">>, <<"a", "b">>}

NoOptions == [option \in {} |-> TRUE]

LayoutKwargs ==
    {NoOptions,
     [max_table_width |-> 6],
     [max_table_width |-> 6, vrules |-> NONE],
     [min_table_width |-> 12],
     [min_table_width |-> 12, vrules |-> NONE],
     [min_table_width |-> 12, border |-> FALSE],
     [min_table_width |-> 12, border |-> FALSE,
      preserve_internal_border |-> TRUE],
     [min_table_width |-> 12, max_table_width |-> 6],
     [min_table_width |-> 8, max_table_width |-> 10, max_width |-> 2],
     [max_width |-> 2],
     [max_width |-> 2, valign |-> "m", border |-> FALSE,
      preserve_internal_border |-> TRUE],
     [border |-> FALSE, preserve_internal_border |-> TRUE, hrules |-> ALL]}

InitOf(s) ==
    /\ Is(s)
    /\ call = [op |-> "__init__", arg |-> <<>>, result |-> "ok"]
    /\ returned = "None"
    /\ renders = {}
    /\ before = s
    /\ ncalls = 0
    /\ new = <<>>

\* PrettyTable(field_names)
InitTable == \E field_names \in TableFieldNames :
    InitOf(__init__(field_names, NoOptions))

\* PrettyTable(field_names, **kwargs)
InitLayout == \E field_names \in TableFieldNames, kwargs \in LayoutKwargs :
    InitOf(__init__(field_names, kwargs))

\* ----------------------------------------------------------------- inputs
\* all sequences over S of length 0..n
SeqsUpTo(S, n) == UNION {[1..k -> S] : k \in 0..n}

FieldNameLists == SeqsUpTo(Names, MaxCols)
\* the rows given to add_row hold 1, 2, ... (every cell of a row differs),
\* the columns given to add_column hold NewCell
RowInputs == {[i \in 1..k |-> i] : k \in 0..MaxCols}
BatchInputs == SeqsUpTo(RowInputs, MaxBatch)
NewCell == 9
ColumnInputs == {[i \in 1..k |-> NewCell] : k \in 0..MaxRows}
\* (align, valign) arguments of add_column: valid, bad align, bad valign
AlignInputs == {<<"c", "t">>, <<"x", "t">>, <<"c", "x">>}
RowIndexInputs == (0 - MaxRows - 1)..MaxRows

\* a call of a method: the object becomes r.s; the method, its outcome and
\* (where a property needs it) its argument are remembered in `call`
\* an alignment, then a value that is none
AlignValueInputs == {"l", "r", "x"}
\* None-like 0, a width, and a negative number
WidthInputs == {0, 3, 0 - 2}
\* the four rule styles and a value that is none of them
RuleInputs == {FRAME, ALL, NONE, HEADER, DEFAULT}
TableStyles == {DEFAULT, MSWORD_FRIENDLY, PLAIN_COLUMNS, MARKDOWN, ORGMODE,
                DOUBLE_BORDER, SINGLE_BORDER, RANDOM}
\* the presets but RANDOM, and HRuleStyle.ALL, which is no TableStyle
StyleInputs == (TableStyles \ {RANDOM}) \cup {ALL}

\* the per-call options of a render: none, a sort, a window, a subset of
\* the fields, a title, a filter, and a sortby that is no field name
RenderInputs ==
    {[option \in {} |-> TRUE],
     [sortby |-> "a", reversesort |-> TRUE],
     [start |-> 1, end |-> 2],
     [fields |-> <<"a">>],
     [title |-> "Title"],
     [row_filter |-> "head_is_1"],
     [sortby |-> "Field 9"]}

\* rows of one and of two cells, of different widths
TextRowInputs == {<<1>>, <<100>>, <<1, 10>>, <<1, 1>>, <<100, 1>>}

\* the options of the render calls that select and order rows
SelectInputs ==
    {NoOptions,
     [row_filter |-> "head_is_1"],
     [start |-> 1, end |-> 2],
     [start |-> 0, end |-> 1, row_filter |-> "head_is_1"],
     [oldsortslice |-> TRUE, start |-> 1, end |-> 2,
      row_filter |-> "head_is_1"],
     [sortby |-> "a"],
     [sortby |-> "a", reversesort |-> TRUE],
     [title |-> "A long title"]}

\* the options of the render calls that override one setting of the table
OverrideInputs ==
    {NoOptions,
     [vertical_char |-> "!"],
     [junction_char |-> "*"],
     [horizontal_align_char |-> ":"],
     [max_table_width |-> 6],
     [min_table_width |-> 12]}

VrulesInputs == {FRAME, ALL, NONE}

CanCall == ncalls < MaxCalls

\* renders after one more render: a render that repeats an earlier one with
\* the same outcome is marked, any other is added
Rendered(arg, result, text) ==
    IF \E x \in renders : x.arg = arg /\ x.result = result /\ x.returned = text
    THEN {[x EXCEPT !.again = @ \/ x.arg = arg] : x \in renders}
    ELSE renders \cup {[arg |-> arg, result |-> result, returned |-> text,
                        again |-> FALSE]}

\* a call on the table, after which the tables taken from it are tables
DoBoth(op, arg, r, tables) ==
    \E text \in {ReturnedBy(r)} :
        /\ new' = tables
        /\ ncalls' = ncalls + 1
        /\ Becomes(r.s)
        /\ call' = [op |-> op, arg |-> arg, result |-> r.result]
        /\ returned' = text
        /\ renders' = IF op = "get_string" THEN Rendered(arg, r.result, text)
                      ELSE {}
        /\ before' = r.s

\* a call on the table that does not reach the tables taken from it
Do(op, arg, r) == DoBoth(op, arg, r, new)

\* ---------------------------------------------------------- store actions
SetFieldNames ==
    /\ CanCall
    /\ \E val \in FieldNameLists :
        \E r \in {field_names_setter(Self, val)} :
            Do("field_names", <<>>, r)

AddRow ==
    /\ CanCall
    /\ Len(_rows) < MaxRows
    /\ \E row \in RowInputs, divider \in BOOLEAN :
        \E r \in {add_row(Self, row, divider)} :
            Do("add_row", Len(row), r)

AddRows ==
    /\ CanCall
    /\ \E rows \in BatchInputs, divider \in BOOLEAN :
        /\ Len(_rows) + Len(rows) <= MaxRows
        /\ \E r \in {add_rows(Self, rows, divider)} :
            Do("add_rows", <<>>, r)

AddColumn ==
    /\ CanCall
    /\ Len(_field_names) < MaxCols
    /\ \E fieldname \in Names, column \in ColumnInputs, av \in AlignInputs :
        \E r \in {add_column(Self, fieldname, column, av[1], av[2])} :
            Do("add_column", <<>>, r)

AddAutoindex ==
    /\ CanCall
    /\ Len(_field_names) < MaxCols
    /\ \E fieldname \in Names :
        \E r \in {add_autoindex(Self, fieldname)} :
            Do("add_autoindex", <<>>, r)

AddDivider ==
    /\ CanCall
    /\ \E r \in {add_divider(Self)} :
        Do("add_divider", <<>>, r)

DelRow ==
    /\ CanCall
    /\ \E row_index \in RowIndexInputs :
        \E r \in {del_row(Self, row_index)} :
            Do("del_row", <<>>, r)

DelColumn ==
    /\ CanCall
    /\ \E fieldname \in Names \cup Range(_field_names) :
        \E r \in {del_column(Self, fieldname)} :
            Do("del_column", fieldname, r)

ClearRows ==
    /\ CanCall
    /\ \E r \in {clear_rows(Self)} :
        Do("clear_rows", <<>>, r)

Clear ==
    /\ CanCall
    /\ \E r \in {clear(Self)} :
        Do("clear", <<>>, r)

\* ------------------------------------------------- per-column map actions
SetAlign ==
    /\ CanCall
    /\ \E val \in AlignValueInputs :
        \E r \in {align_setter(Self, val)} :
            Do("align", val, r)

SetMaxWidth ==
    /\ CanCall
    /\ \E val \in WidthInputs :
        \E r \in {max_width_setter(Self, val)} :
            Do("max_width", val, r)

\* ---------------------------------------------------------- style actions
SetBorder ==
    /\ CanCall
    /\ \E val \in BOOLEAN :
        \E r \in {border_setter(Self, val)} :
            Do("border", val, r)

SetHrules ==
    /\ CanCall
    /\ \E val \in RuleInputs :
        \E r \in {hrules_setter(Self, val)} :
            Do("hrules", val, r)

SetPaddingWidth ==
    /\ CanCall
    /\ \E val \in WidthInputs :
        \E r \in {padding_width_setter(Self, val)} :
            Do("padding_width", val, r)

\* --------------------------------------------------------- render actions
SetMaxTableWidth ==
    /\ CanCall
    /\ \E val \in WidthInputs :
        \E r \in {max_table_width_setter(Self, val)} :
            Do("max_table_width", val, r)

GetString ==
    /\ CanCall
    /\ \E kwargs \in RenderInputs :
        \E r \in {get_string(Self, kwargs)} :
            Do("get_string", kwargs, r)

AddTextRow ==
    /\ CanCall
    /\ Len(_rows) < MaxRows
    /\ \E row \in TextRowInputs :
        \E r \in {add_row(Self, row, FALSE)} :
            Do("add_row", row, r)

GetStringSelect ==
    /\ CanCall
    /\ \E kwargs \in SelectInputs :
        \E r \in {get_string(Self, kwargs)} :
            Do("get_string", kwargs, r)

GetStringOverride ==
    /\ CanCall
    /\ \E kwargs \in OverrideInputs :
        \E r \in {get_string(Self, kwargs)} :
            Do("get_string", kwargs, r)

GetStringPlain ==
    /\ CanCall
    /\ \E r \in {get_string(Self, NoOptions)} :
        Do("get_string", NoOptions, r)

SetVrules ==
    /\ CanCall
    /\ \E val \in VrulesInputs :
        \E r \in {vrules_setter(Self, val)} :
            Do("vrules", val, r)

\* before keeps the table as it was when the current run of successful
\* set_style calls began
SetStyle ==
    /\ CanCall
    /\ \E style \in StyleInputs :
        \E r \in {set_style(Self, style)} :
            /\ ncalls' = ncalls + 1
            /\ Becomes(r.s)
            /\ call' = [op |-> "set_style", arg |-> style, result |-> r.result]
            /\ returned' = "None"
            /\ renders' = {}
            /\ before' = IF r.result = "ok" THEN before ELSE r.s
            /\ new' = new

Next ==
    \/ SetFieldNames
    \/ AddRow
    \/ AddRows
    \/ AddColumn
    \/ AddAutoindex
    \/ AddDivider
    \/ DelRow
    \/ DelColumn
    \/ ClearRows
    \/ Clear

Spec == Init /\ [][Next]_vars

\* per-column settings: a table built with or without per-column keyword
\* arguments, its columns renamed, added and deleted
NextColumns ==
    \/ SetFieldNames
    \/ AddRow
    \/ AddColumn
    \/ DelColumn
    \/ SetAlign
    \/ SetMaxWidth

SpecColumns == InitKwargs /\ [][NextColumns]_vars

\* style settings and preset styles
NextStyle ==
    \/ SetStyle
    \/ SetBorder
    \/ SetHrules
    \/ SetPaddingWidth

SpecStyle == Init /\ [][NextStyle]_vars

\* rendering a table built from rows, an index column and a style
NextRender ==
    \/ AddRow
    \/ AddAutoindex
    \/ SetStyle
    \/ SetMaxTableWidth
    \/ GetString

SpecRender == Init /\ [][NextRender]_vars

\* Tables with named columns and cells of different widths, rendered with
\* options that select and order the rows.
NextText ==
    \/ AddTextRow
    \/ GetStringSelect

SpecText == InitTable /\ [][NextText]_vars

\* The same tables, rendered with one setting overridden.
NextOverride ==
    \/ AddTextRow
    \/ GetStringOverride

SpecOverride == InitTable /\ [][NextOverride]_vars

\* Tables constructed with layout options, rendered as they are.
\* the texts, widths and alignments _justify is called with
JustifyTexts == {"", "x", "ab", "a b", "abcd", "abcde"}
MaxWidth == 8
JustifyAligns == {"l", "c", "r"}

\* self._justify(text, width, align)
Justify ==
    /\ CanCall
    /\ \E text \in JustifyTexts, width \in 0..MaxWidth, align \in JustifyAligns :
        \E r \in {Returns(Self, _justify(text, width, align))} :
            Do("_justify", [text |-> text, width |-> width, align |-> align], r)

NextJustify == Justify

SpecJustify == InitTable /\ [][NextJustify]_vars

\* the keywords get_latex_string is called with
LatexInputs ==
    {NoOptions, [format |-> TRUE], [format |-> TRUE, vrules |-> FRAME],
     [format |-> TRUE, fields |-> <<"a">>]}
    \cup {[format |-> TRUE, hrules |-> hrules, header |-> header,
           border |-> border] :
             hrules \in {FRAME, ALL, NONE, HEADER},
             header \in BOOLEAN, border \in BOOLEAN}

\* table.get_latex_string(**kwargs)
GetLatexString ==
    /\ CanCall
    /\ \E kwargs \in LatexInputs :
        \E r \in {get_latex_string(Self, kwargs)} :
            Do("get_latex_string", kwargs, r)

NextLatex ==
    \/ AddTextRow
    \/ GetLatexString

SpecLatex == InitTable /\ [][NextLatex]_vars

\* a string, a truthy value that is no string, and None
NoneFormatInputs == {"-", NotAStr, "None"}
\* a vertical alignment, and a value that is none
ValignValueInputs == {"m", "b", "x"}

\* table.none_format = val
SetNoneFormat ==
    /\ CanCall
    /\ \E val \in NoneFormatInputs :
        \E r \in {none_format_setter(Self, val)} :
            Do("none_format", val, r)

\* table.valign = val
SetValign ==
    /\ CanCall
    /\ \E val \in ValignValueInputs :
        \E r \in {valign_setter(Self, val)} :
            Do("valign", val, r)

\* table.min_width = val
SetMinWidth ==
    /\ CanCall
    /\ \E val \in WidthInputs :
        \E r \in {min_width_setter(Self, val)} :
            Do("min_width", val, r)

\* the property setters of the per-column maps
NextSetters ==
    \/ SetNoneFormat
    \/ SetAlign
    \/ SetValign
    \/ SetMaxWidth
    \/ SetMinWidth

SpecSetters == InitTable /\ [][NextSetters]_vars

\* a junction character, and a string that is none
JunctionInputs == {"*", "ab"}
JunctionPositions == {"top", "bottom", "right", "left", "top_right",
                      "top_left", "bottom_right", "bottom_left"}

\* table.junction_char = val
SetJunctionChar ==
    /\ CanCall
    /\ \E val \in JunctionInputs :
        \E r \in {junction_char_setter(Self, val)} :
            Do("junction_char", val, r)

\* table.top_junction_char = "#", ..., table.bottom_left_junction_char = "#"
SetPositionJunction ==
    /\ CanCall
    /\ \E where \in JunctionPositions :
        \E r \in {position_junction_char_setter(Self, where, "#")} :
            Do(where \o "_junction_char", "#", r)

\* one row of as many cells as the table has fields
AddFullRow ==
    /\ CanCall
    /\ Len(_rows) < 1
    /\ \E r \in {add_row(Self, [i \in 1..Len(_field_names) |-> i], FALSE)} :
        Do("add_row", [i \in 1..Len(_field_names) |-> i], r)

NextJunction ==
    \/ SetStyle
    \/ SetJunctionChar
    \/ SetPositionJunction
    \/ AddFullRow
    \/ GetStringPlain

SpecJunction == InitTable /\ [][NextJunction]_vars

\* the rows that are stored with or without a divider, and how many of them
DividerRowInputs == {<<1>>, <<2>>, <<1, 1>>, <<2, 1>>}
MaxDividerRows == 3

\* the windows and filters of the render calls of a table with dividers
WindowInputs ==
    {NoOptions,
     [start |-> 1],
     [start |-> 0, end |-> 2],
     [start |-> 1, end |-> 3],
     [row_filter |-> "head_is_1"],
     [start |-> 1, row_filter |-> "head_is_1"]}

\* table.add_row(row, divider=divider)
AddRowDivider ==
    /\ CanCall
    /\ Len(_rows) < MaxDividerRows
    /\ \E row \in DividerRowInputs, divider \in BOOLEAN :
        /\ Len(row) = Len(_field_names)
        /\ \E r \in {add_row(Self, row, divider)} :
            Do("add_row", [row |-> row, divider |-> divider], r)

\* table.get_string(start=..., end=..., row_filter=...)
GetStringWindow ==
    /\ CanCall
    /\ \E kwargs \in WindowInputs :
        \E r \in {get_string(Self, kwargs)} :
            Do("get_string", kwargs, r)

NextDividers ==
    \/ AddRowDivider
    \/ GetStringWindow

SpecDividers == InitTable /\ [][NextDividers]_vars

\* tables in a preset style with alignments and a max_table_width
NextMarkdown ==
    \/ SetStyle
    \/ SetAlign
    \/ SetMaxTableWidth
    \/ AddTextRow
    \/ GetStringPlain

SpecMarkdown == InitTable /\ [][NextMarkdown]_vars

\* render calls with a title: short or long, over all fields or a subset,
\* with each kind of vertical rules
TitleInputs ==
    {[title |-> "T"], [title |-> "A long title"],
     [title |-> "T", fields |-> <<"a">>],
     [title |-> "A long title", fields |-> <<"a">>],
     [title |-> "T", vrules |-> FRAME],
     [title |-> "T", vrules |-> NONE]}

\* table.get_string(title=..., fields=...)
GetStringTitle ==
    /\ CanCall
    /\ \E kwargs \in TitleInputs :
        \E r \in {get_string(Self, kwargs)} :
            Do("get_string", kwargs, r)

NextTitle ==
    \/ AddTextRow
    \/ GetStringTitle

SpecTitle == InitTable /\ [][NextTitle]_vars

\* ----------------------------------------------------------- TableHandler
\* TableHandler.make_fields_unique: for i, for j > i, a field equal to
\* fields[i] gets a "'" appended
RECURSIVE MakeUniqueLoop(_, _, _)
MakeUniqueLoop(fields, i, j) ==
    IF i > Len(fields) THEN fields
    ELSE IF j > Len(fields) THEN MakeUniqueLoop(fields, i + 1, i + 2)
    ELSE MakeUniqueLoop(IF fields[i] = fields[j]
                        THEN [fields EXCEPT ![j] = @ \o "'"]
                        ELSE fields, i, j + 1)

make_fields_unique(fields) == MakeUniqueLoop(fields, 1, 2)

\* self.max_row_width after the rows of a table: the longest row
MaxRowWidth(rows) ==
    IF rows = <<>> THEN 0
    ELSE CHOOSE n \in {Len(rows[k].cells) : k \in 1..Len(rows)} :
             \A k \in 1..Len(rows) : Len(rows[k].cells) <= n

\* for i in range(1, appends): row[0].append("-")
PadRow(cells, max_row_width) ==
    IF Len(cells) < max_row_width
    THEN cells \o [i \in 1..(max_row_width - Len(cells) - 1) |-> "-"]
    ELSE cells

\* the loop of TableHandler.generate_table over the rows of the table
RECURSIVE GenerateLoop(_, _, _, _)
GenerateLoop(table, rows, k, max_row_width) ==
    IF k > Len(rows) THEN Ok(table)
    ELSE Then(PadRow(rows[k].cells, max_row_width), LAMBDA row :
         Then(IF rows[k].header
              THEN field_names_setter(table, make_fields_unique(row))
              ELSE add_row(table, row, FALSE), LAMBDA r :
         IF r.result # "ok" THEN r
         ELSE GenerateLoop(r.s, rows, k + 1, max_row_width)))

\* TableHandler().generate_table(rows), for the rows of one table
generate_table(rows) ==
    GenerateLoop(__init__(<<>>, NoOptions), rows, 1, MaxRowWidth(rows))

\* the header rows and the data rows of the tables given to the handler
HeaderInputs == SeqsUpTo({"a", "a'"}, MaxCols + 1) \ {<<>>}
DataInputs == {<<"x">>, <<"x", "y", "z">>}
HtmlInputs ==
    {<<[cells |-> h, header |-> TRUE]>> : h \in HeaderInputs}
    \cup {<<[cells |-> h, header |-> TRUE], [cells |-> d, header |-> FALSE]>> :
             h \in HeaderInputs, d \in DataInputs}

\* the end of a table element: the table generated from the rows is
\* appended to the tables of the handler, of which the model keeps the last
GenerateTable ==
    /\ CanCall
    /\ \E rows \in HtmlInputs :
        \E r \in {generate_table(rows)} :
            Do("generate_table", rows,
               IF r.result = "ok" THEN r ELSE Raise(Self, r.result))

NextHandler == GenerateTable

SpecHandler == Init /\ [][NextHandler]_vars

\* ------------------------------------------------------------ line widths
HorizontalAlignInputs == {":", "ab"}

SetHorizontalAlignChar ==
    /\ CanCall
    /\ \E val \in HorizontalAlignInputs :
        \E r \in {horizontal_align_char_setter(Self, val)} :
            Do("horizontal_align_char", val, r)

\* tables whose cells are wrapped, and padded from the top or evenly
WrapKwargs == {NoOptions, [max_width |-> 2], [max_width |-> 2, valign |-> "m"]}

\* PrettyTable(field_names, **kwargs)
InitWrap == \E field_names \in TableFieldNames, kwargs \in WrapKwargs :
    InitOf(__init__(field_names, kwargs))

NextWidth ==
    \/ AddTextRow
    \/ SetVrules
    \/ SetPaddingWidth
    \/ SetAlign
    \/ SetHorizontalAlignChar
    \/ GetStringPlain

SpecWidth == InitWrap /\ [][NextWidth]_vars

\* ------------------------------------------------------------ constructor
\* the options a table is constructed with: the rule styles and the
\* padding widths, zero and not
CtorKwargs ==
    {NoOptions,
     [vrules |-> FRAME], [vrules |-> ALL], [vrules |-> NONE],
     [hrules |-> FRAME], [hrules |-> ALL], [hrules |-> HEADER],
     [padding_width |-> 0], [padding_width |-> 2],
     [left_padding_width |-> 0], [left_padding_width |-> 2],
     [right_padding_width |-> 0], [right_padding_width |-> 2],
     [padding_width |-> 0, left_padding_width |-> 2],
     [vrules |-> FRAME, hrules |-> FRAME, left_padding_width |-> 0,
      right_padding_width |-> 0, padding_width |-> 0]}

\* table = PrettyTable(field_names, **kwargs)
Construct ==
    /\ CanCall
    /\ \E field_names \in TableFieldNames, kwargs \in CtorKwargs :
        \E r \in {Ok(__init__(field_names, kwargs))} :
            Do("__init__", [field_names |-> field_names, kwargs |-> kwargs], r)

NextCtor ==
    \/ Construct
    \/ AddTextRow
    \/ GetStringPlain

SpecCtor == Init /\ [][NextCtor]_vars

\* ------------------------------------------------------------ __getitem__
\* for row in rows: new.add_row(row)
RECURSIVE GetItemLoop(_, _, _)
GetItemLoop(s, rows, i) ==
    IF i > Len(rows) THEN Ok(s)
    ELSE Then(add_row(s, rows[i].vals, FALSE), LAMBDA r :
         IF r.result # "ok" THEN r ELSE GetItemLoop(r.s, rows, i + 1))

\* table[index] for an index i or a slice start:stop, both not negative:
\* a table with the field names of s, on which every option attribute and
\* _align are set to the values of s, and the selected rows added
__getitem__(s, index) ==
    Then(field_names_setter(__init__(<<>>, NoOptions), s._field_names).s,
         LAMBDA made :
    Then([s EXCEPT !._field_names = made._field_names,
                   !._rows = made._rows,
                   !._dividers = made._dividers,
                   !._kwargs = made._kwargs,
                   !._style = made._style,
                   !.orgmode = made.orgmode,
                   !._widths = made._widths,
                   !._hrule = made._hrule], LAMBDA copy :
    IF index.kind = "slice"
    THEN GetItemLoop(copy, PySlice(s._rows, index.start, index.stop), 1)
    ELSE IF index.i >= Len(s._rows) THEN Raise(copy, "IndexError")
         ELSE add_row(copy, s._rows[index.i + 1].vals, FALSE)))

\* the attributes whose value is a dict: setattr gives the new table the
\* dict of the table it is taken from, not a copy of it
SharedMaps ==
    {"_align", "_valign", "_max_width", "_min_width", "_int_format",
     "_float_format", "_custom_format", "_none_format"}

IndexInputs ==
    {[kind |-> "int", i |-> 0], [kind |-> "int", i |-> 1],
     [kind |-> "slice", start |-> 0, stop |-> 1],
     [kind |-> "slice", start |-> 1, stop |-> 2],
     [kind |-> "slice", start |-> 0, stop |-> 2]}

\* new = table[index]; the model keeps one table taken from the table
GetItem ==
    /\ CanCall
    /\ new = <<>>
    /\ \E index \in IndexInputs :
        \E r \in {__getitem__(Self, index)} :
            DoBoth("__getitem__", index, [s |-> Self, result |-> r.result],
                   IF r.result = "ok"
                   THEN <<[table |-> r.s, shared |-> SharedMaps]>>
                   ELSE new)

\* rows are added to the table before a table is taken from it
AddRowBefore ==
    /\ new = <<>>
    /\ AddTextRow

\* the setters of the per-column maps, by the name of the property
MapSetter(s, property, val) ==
    IF property = "align" THEN align_setter(s, val)
    ELSE IF property = "valign" THEN valign_setter(s, val)
    ELSE IF property = "max_width" THEN max_width_setter(s, val)
    ELSE min_width_setter(s, val)

\* does the setter write into the dict the attribute holds (self._align[field]
\* = val) or does it bind the attribute to a new dict (self._align = {...})
WritesInPlace(s, property, val) ==
    IF property \in {"align", "valign"} THEN s._field_names # <<>>
    ELSE val # NoneInt /\ val # 0

MapProperties == {"align", "valign", "max_width", "min_width"}
MapValues(property) ==
    IF property = "align" THEN {"l", "x"}
    ELSE IF property = "valign" THEN {"m"}
    ELSE {3, 0}

\* the table on, and the other table, after on.property = val: a write into
\* a dict both tables hold reaches the other table, a new dict ends the
\* sharing of the attribute
SetMapOf(on, other, shared, property, val) ==
    Then(MapSetter(on, property, val), LAMBDA r :
    Then("_" \o property, LAMBDA attr :
    [on |-> r.s, result |-> r.result,
     other |-> IF r.result = "ok" /\ attr \in shared
                  /\ WritesInPlace(on, property, val)
               THEN [other EXCEPT ![attr] = r.s[attr]] ELSE other,
     shared |-> IF r.result = "ok" /\ ~WritesInPlace(on, property, val)
                THEN shared \ {attr} ELSE shared]))

\* table.property = val, with a table taken from the table
SetMapOnSelf ==
    /\ CanCall
    /\ new # <<>>
    /\ \E property \in MapProperties : \E val \in MapValues(property) :
        \E r \in {SetMapOf(Self, new[1].table, new[1].shared,
                           property, val)} :
            DoBoth(property, [on |-> "self", val |-> val],
                   [s |-> r.on, result |-> r.result],
                   <<[table |-> r.other, shared |-> r.shared]>>)

\* new.property = val
SetMapOnNew ==
    /\ CanCall
    /\ new # <<>>
    /\ \E property \in MapProperties : \E val \in MapValues(property) :
        \E r \in {SetMapOf(new[1].table, Self, new[1].shared,
                           property, val)} :
            DoBoth(property, [on |-> "new", val |-> val],
                   [s |-> r.other, result |-> r.result],
                   <<[table |-> r.on, shared |-> r.shared]>>)

\* new.add_row(row)
AddRowOnNew ==
    /\ CanCall
    /\ new # <<>>
    /\ Len(new[1].table._rows) < MaxRows
    /\ \E row \in {[i \in 1..Len(_field_names) |-> NewCell]} :
        \E r \in {add_row(new[1].table, row, FALSE)} :
            DoBoth("add_row", [on |-> "new", val |-> row],
                   [s |-> Self, result |-> r.result],
                   <<[table |-> r.s, shared |-> new[1].shared]>>)

\* new.del_row(0)
DelRowOnNew ==
    /\ CanCall
    /\ new # <<>>
    /\ \E r \in {del_row(new[1].table, 0)} :
        DoBoth("del_row", [on |-> "new", val |-> 0],
               [s |-> Self, result |-> r.result],
               <<[table |-> r.s, shared |-> new[1].shared]>>)

NextGetItem ==
    \/ AddRowBefore
    \/ GetItem
    \/ SetMapOnSelf
    \/ SetMapOnNew
    \/ AddRowOnNew
    \/ DelRowOnNew

SpecGetItem == InitTable /\ [][NextGetItem]_vars

\* the page lengths and the windows paginate is called with
MaxPageLength == 3
PageInputs ==
    {NoOptions, [start |-> 1], [end |-> 2], [start |-> 1, end |-> 3],
     [end |-> 5], [start |-> 2, end |-> 1]}

\* table.paginate(page_length, **kwargs)
Paginate ==
    /\ CanCall
    /\ \E page_length \in 1..MaxPageLength, kwargs \in PageInputs :
        \E r \in {paginate(Self, page_length, kwargs)} :
            Do("paginate", [page_length |-> page_length, kwargs |-> kwargs], r)

NextPaginate ==
    \/ AddRowDivider
    \/ Paginate

SpecPaginate == InitTable /\ [][NextPaginate]_vars

NextLayout ==
    \/ AddTextRow
    \/ SetVrules
    \/ GetStringPlain

SpecLayout == InitLayout /\ [][NextLayout]_vars

\* ------------------------------------------------------------- properties
\* C1: whenever field names are set, every stored row has exactly as many
\* values as there are field names, after any sequence of store calls
\* (add_column on a table with field names and no rows included).
C1_RowLengthEqualsFieldCount ==
    _field_names # <<>> =>
        \A i \in 1..Len(_rows) : Len(_rows[i].vals) = Len(_field_names)

\* C2: add_row with a row whose length differs from the number of field
\* names, on a table whose field names are non-empty, raises and leaves
\* field names, rows and dividers as they were.
C2_AddRowMismatchRaisesUnchanged ==
    [][(/\ call'.op = "add_row"
        /\ _field_names # <<>>
        /\ call'.arg # Len(_field_names))
       => (/\ call'.result = "ValueError"
           /\ _field_names' = _field_names
           /\ _rows' = _rows
           /\ _dividers' = _dividers)]_vars

\* a mismatching add_row was called on a table with field names and raised
C2_Witness ==
    /\ call.op = "add_row"
    /\ call.result = "ValueError"
    /\ _field_names # <<>>
    /\ call.arg # Len(_field_names)
    /\ _rows # <<>>

\* C3: the field names are pairwise distinct after any sequence of store
\* calls; a call that would introduce a duplicate fails instead.
C3_FieldNamesUnique == IsUnique(_field_names)

\* C4: the dividers list is as long as the rows list and dividers[i] is the
\* flag given to (or later set by add_divider on) the row stored at i.
C4_DividersFollowRows ==
    /\ Len(_dividers) = Len(_rows)
    /\ \A i \in 1..Len(_rows) : _dividers[i] = _rows[i].flag

\* a row was deleted from in front of a row that carries a divider flag
C4_Witness ==
    /\ call.op = "del_row"
    /\ call.result = "ok"
    /\ Len(_rows) = 1
    /\ _rows[1].flag
    /\ _dividers = <<TRUE>>

\* C9: add_rows is all-or-nothing: when it raises, rows and dividers are as
\* before the call.
C9_AddRowsAllOrNothing ==
    [][(call'.op = "add_rows" /\ call'.result # "ok")
       => (_rows' = _rows /\ _dividers' = _dividers)]_vars

\* C5: after del_column(name) succeeds, name is no field name, every row
\* lost the value at the column's position, name is a key of no per-column
\* map, and the entries of the other columns are as before.
C5_DelColumnRemovesEverywhere ==
    [][(call'.op = "del_column" /\ call'.result = "ok") =>
        /\ call'.arg \notin Range(_field_names')
        /\ Len(_rows') = Len(_rows)
        /\ \A i \in 1..Len(_rows) :
            _rows'[i].vals =
                ListDel(_rows[i].vals, ListIndex(_field_names, call'.arg))
        /\ \A m \in 1..Len(columnVars) :
            /\ call'.arg \notin DOMAIN columnVars'[m]
            /\ \A k \in DOMAIN columnVars[m] \ {call'.arg} :
                /\ k \in DOMAIN columnVars'[m]
                /\ columnVars'[m][k] = columnVars[m][k]]_vars

\* C6: assigning a field-name list to a table that has field names renames
\* by position: in every per-column map the setting of new name i is the one
\* old name i had (or none, when old name i had none), old names that are not
\* reused are keys of no map, and the rows are as before.
C6_RenameRemapsByPosition ==
    [][(call'.op = "field_names" /\ call'.result = "ok" /\ _field_names # <<>>) =>
        /\ \A m \in 1..Len(columnVars) :
            /\ \A i \in 1..Len(_field_names) :
                /\ _field_names'[i] \in DOMAIN columnVars'[m]
                       <=> _field_names[i] \in DOMAIN columnVars[m]
                /\ _field_names[i] \in DOMAIN columnVars[m] =>
                       columnVars'[m][_field_names'[i]] =
                           columnVars[m][_field_names[i]]
            /\ \A old \in Range(_field_names) \ Range(_field_names') :
                old \notin DOMAIN columnVars'[m]
        /\ _rows' = _rows]_vars

\* C7: after a run of successful set_style calls the style-controlled
\* settings are those the last call of the run alone gives the table the
\* run started from.
C7_StyleNotCumulative ==
    (call.op = "set_style" /\ call.result = "ok") =>
        StyleSettings(Self) = StyleSettings(set_style(before, call.arg).s)

\* C8: set_style with a value that is no TableStyle raises ValueError and
\* leaves every style-controlled setting and the remembered style as they
\* were.
C8_InvalidStyleNoPartialState ==
    [][(call'.op = "set_style" /\ call'.arg \notin TableStyles) =>
        /\ call'.result = "ValueError"
        /\ StyleSettings(Self)' = StyleSettings(Self)
        /\ _style' = _style]_vars

\* C10: a render call, whatever its per-call options and its outcome,
\* changes nothing of the table but the computed widths and the cached rule.
C10_RenderLeavesTableUnchanged ==
    [][call'.op = "get_string" =>
        UNCHANGED <<storeVars, columnVars, _kwargs, optionVars>>]_vars

C10_Witness ==
    /\ call.op = "get_string"
    /\ call.result = "ok"
    /\ "sortby" \in DOMAIN call.arg
    /\ Len(_rows) = 2
    /\ _rows[1].vals # _rows[2].vals
    /\ Len(_widths) = Len(_field_names)
    /\ _hrule \notin {"None", ""}

\* C11: rendering is deterministic and idempotent: render calls with the
\* same options, made with no other call on the table between them, end the
\* same way and return the same text, whatever other renders came between
\* or before them.
C11_RenderIsIdempotent ==
    \A x \in renders, y \in renders :
        x.arg = y.arg => x.result = y.result /\ x.returned = y.returned

\* a render repeated as the last call, after a render with other options
\* that returned another text
C11_Witness ==
    /\ call.op = "get_string"
    /\ \E x \in renders, y \in renders :
          /\ x.arg = call.arg /\ x.again
          /\ x.result = "ok" /\ x.returned # ""
          /\ y.arg # x.arg /\ y.result = "ok" /\ y.returned # x.returned

\* the table after the one option of kwargs was set on it with its setter
SetPersistently(s, kwargs) ==
    IF "vertical_char" \in DOMAIN kwargs
    THEN vertical_char_setter(s, kwargs.vertical_char).s
    ELSE IF "junction_char" \in DOMAIN kwargs
    THEN junction_char_setter(s, kwargs.junction_char).s
    ELSE IF "horizontal_align_char" \in DOMAIN kwargs
    THEN horizontal_align_char_setter(s, kwargs.horizontal_align_char).s
    ELSE IF "max_table_width" \in DOMAIN kwargs
    THEN max_table_width_setter(s, kwargs.max_table_width).s
    ELSE IF "min_table_width" \in DOMAIN kwargs
    THEN min_table_width_setter(s, kwargs.min_table_width).s
    ELSE s

\* C12: a render call given vertical_char, junction_char,
\* horizontal_align_char, max_table_width or min_table_width returns the
\* text that a render call without options returns once that option is set
\* on the table.
C12_OverrideEqualsPersistent ==
    (call.op = "get_string" /\ call.result = "ok" /\ DOMAIN call.arg # {})
    => returned = ReturnedBy(get_string(SetPersistently(Self, call.arg),
                                        NoOptions))

\* the rows sorted as _get_rows sorts them
SortedAsCoded(s, rows, options) ==
    IF options.sortby # "None" /\ options.sortby # ""
    THEN Then(ListIndex(s._field_names, options.sortby), LAMBDA sortindex :
         Then(Sorted([i \in 1..Len(rows) |-> <<rows[i][sortindex]>> \o rows[i]],
                     options.reversesort, Len(rows)), LAMBDA sorted :
         [i \in 1..Len(sorted) |-> Tail(sorted[i])]))
    ELSE rows

\* C13: whatever oldsortslice is, the rows printed are the [start:end]
\* window of the rows that pass the row filter; the window is taken before
\* the sort when oldsortslice is set and after it when it is not.
C13_FilterBeforeSlice ==
    (call.op = "get_string" /\ call.result = "ok") =>
        LET options == _get_options(Self, call.arg)
            passing == SelectSeq([i \in 1..Len(_rows) |-> _rows[i].vals],
                                 LAMBDA row : row_filter(options.row_filter, row))
        IN  _get_rows(Self, options).rows =
                IF options.oldsortslice
                THEN SortedAsCoded(Self,
                         PySlice(passing, options.start, options.end), options)
                ELSE PySlice(SortedAsCoded(Self, passing, options),
                             options.start, options.end)

\* C14: sorting by a field orders the printed rows by the cell in that
\* column only (largest first with reversesort), and rows whose cells in that
\* column are equal stay in the order they were added in.
C14_SortIsStableOnColumn ==
    (/\ call.op = "get_string" /\ call.result = "ok"
     /\ "sortby" \in DOMAIN call.arg
     /\ DOMAIN call.arg \subseteq {"sortby", "reversesort"}) =>
        LET options == _get_options(Self, call.arg)
            k == ListIndex(_field_names, options.sortby)
            stored == [i \in 1..Len(_rows) |-> _rows[i].vals]
            printed == _get_rows(Self, options).rows
        IN  /\ \A i \in 1..(Len(printed) - 1) :
                  IF options.reversesort THEN printed[i][k] >= printed[i + 1][k]
                  ELSE printed[i][k] <= printed[i + 1][k]
            /\ \A v \in {stored[i][k] : i \in 1..Len(stored)} :
                  SelectSeq(printed, LAMBDA row : row[k] = v)
                  = SelectSeq(stored, LAMBDA row : row[k] = v)

\* the lines of the text the last call returned
ReturnedLines == SplitLines(returned, 1, 1)

\* the table rendered by the last call, had it no max_table_width
Unlimited ==
    get_string([Self EXCEPT !._max_table_width = NoneInt], call.arg)

\* C15: when max_table_width is set and smaller than the natural width of
\* the table, every column width after scaling is at least 1 and at most
\* the natural width of the column, and no line of the rendered table is
\* wider than max_table_width, whatever the vertical rules.  Stated for
\* tables without title and min_table_width, and for a max_table_width that
\* columns of width 1 fit in.
C15_ScaledTableFits ==
    (/\ call.op = "get_string" /\ call.result = "ok" /\ _rows # <<>>
     /\ _max_table_width > 0 /\ _min_table_width = NoneInt /\ _border
     /\ Unlimited.result = "ok"
     /\ Len(Head(SplitLines(Unlimited.text, 1, 1))) > _max_table_width
     /\ Len(_field_names) * (1 + 2 * _padding_width) + Len(_field_names) + 1
            <= _max_table_width) =>
        /\ \A i \in 1..Len(_widths) :
              _widths[i] >= 1 /\ _widths[i] <= Unlimited.s._widths[i]
        /\ \A i \in 1..Len(ReturnedLines) :
              Len(ReturnedLines[i]) <= _max_table_width

\* the table rendered by the last call, had it no min_table_width
Unstretched ==
    get_string([Self EXCEPT !._min_table_width = NoneInt], call.arg)

\* C16: when min_table_width is set (no title, no max_table_width, all
\* fields displayed) and the natural width of the table is smaller, the
\* final column widths, the padding of each column and the border and
\* separator characters add up to min_table_width, no column is narrower
\* than its natural width, and every line of the rendered table is exactly
\* min_table_width wide.
C16_StretchedTableIsExact ==
    (/\ call.op = "get_string" /\ call.result = "ok" /\ call.arg = NoOptions
     /\ _rows # <<>>
     /\ _min_table_width > 0 /\ _max_table_width = NoneInt /\ _title = "None"
     /\ Unstretched.result = "ok"
     /\ \A line \in Range(SplitLines(Unstretched.text, 1, 1)) :
           Len(line) < _min_table_width) =>
        /\ Sum(_widths) + Len(_widths) * 2 * _padding_width
           + (IF _border THEN Len(_widths) + 1
              ELSE IF _preserve_internal_border THEN Len(_widths) - 1
              ELSE 0) = _min_table_width
        /\ \A i \in 1..Len(_widths) : _widths[i] >= Unstretched.s._widths[i]
        /\ \A i \in 1..Len(ReturnedLines) :
              Len(ReturnedLines[i]) = _min_table_width

\* the values a cell is replaced with to make it wider
WiderCells == {10, 1000, 10000000}

\* the table rendered by the last call, had cell c of row r held value
WithCell(r, c, value) ==
    get_string([Self EXCEPT !._rows[r].vals[c] = value], call.arg)

\* C17: a table that differs from the rendered one only in that one cell of
\* a column holds a wider string never gets a smaller width for that
\* column, whatever min_width, max_width, min_table_width and
\* max_table_width are.
C17_WiderCellNeverNarrowsColumn ==
    (call.op = "get_string" /\ call.result = "ok" /\ call.arg = NoOptions) =>
        \A r \in 1..Len(_rows) : \A c \in 1..Len(_rows[r].vals) :
            \A value \in WiderCells :
                (/\ c <= Len(_widths)
                 /\ Len(ToString(value)) > Len(ToString(_rows[r].vals[c]))
                 /\ WithCell(r, c, value).result = "ok") =>
                    WithCell(r, c, value).s._widths[c] >= _widths[c]

\* C18: _justify(text, width, align) of a text at most width wide returns
\* the text with nothing but spaces around it, exactly width wide: for "l"
\* all spaces are on the right, for "r" all on the left, for "c" the two
\* sides differ by at most one, the odd space going to the right when the
\* text width is odd and to the left when it is even, as str.center does.
C18_JustifyPadsToWidth ==
    (call.op = "_justify" /\ Len(call.arg.text) <= call.arg.width) =>
        LET text == call.arg.text
            width == call.arg.width
            align == call.arg.align
            excess == width - Len(text)
            centred == excess \div 2 +
                       (IF excess % 2 = 1 /\ width % 2 = 1 THEN 1 ELSE 0)
        IN  /\ call.result = "ok"
            /\ Len(returned) = width
            /\ \E left \in 0..excess :
                /\ returned = Rep(" ", left) \o text \o Rep(" ", excess - left)
                /\ align = "l" => left = 0
                /\ align = "r" => left = excess
                /\ align = "c" =>
                    /\ left - (excess - left) \in {0 - 1, 0, 1}
                    /\ (excess % 2 = 1 /\ Len(text) % 2 = 1) =>
                           excess - left = left + 1
                    /\ (excess % 2 = 1 /\ Len(text) % 2 = 0) =>
                           left = excess - left + 1
                    /\ left = centred

\* justify("x", 4, "c") == " x  "
C18_Witness ==
    /\ call.op = "_justify"
    /\ call.arg = [text |-> "x", width |-> 4, align |-> "c"]
    /\ call.result = "ok"
    /\ returned = " x  "

\* the table rendered by the last call, had it a border
Framed == get_string([Self EXCEPT !._border = TRUE], call.arg)

\* the positions of a line that hold a vertical rule or a junction
RuleColumns(line) ==
    {i \in 1..Len(line) :
        SubSeq(line, i, i) \in {_vertical_char, _junction_char}}

\* C19: with border=False and preserve_internal_border=True (vertical rules
\* ALL) every line of the rendered table, the non-final lines of a row of
\* several lines included, has the separator between adjacent columns and
\* no border character at its start or end; with border=True the same
\* table has the full frame.
C19_InternalBorderOnly ==
    (/\ call.op = "get_string" /\ call.result = "ok" /\ call.arg = NoOptions
     /\ _rows # <<>>
     /\ ~_border /\ _preserve_internal_border /\ _vrules = ALL
     /\ Framed.result = "ok") =>
        /\ \A line \in Range(ReturnedLines) :
              /\ Cardinality(RuleColumns(line)) = Len(_field_names) - 1
              /\ 1 \notin RuleColumns(line)
              /\ Len(line) \notin RuleColumns(line)
        /\ \A line \in Range(SplitLines(Framed.text, 1, 1)) :
              /\ Cardinality(RuleColumns(line)) = Len(_field_names) + 1
              /\ 1 \in RuleColumns(line)
              /\ Len(line) \in RuleColumns(line)

\* the lines of the returned LaTeX text that are \hline
HlineLines ==
    {i \in 1..Len(ReturnedLines) : ReturnedLines[i] = "\\hline\r"}

\* the lines of the returned LaTeX text that are the header row or a data row
ContentLines == (2..(Len(ReturnedLines) - 1)) \ HlineLines

\* C20: in formatted LaTeX output with a border the \hline lines follow
\* hrules alone: FRAME gives two, after \begin{tabular} and before
\* \end{tabular}; ALL gives one after \begin{tabular}, one after the header
\* row and one after every data row; HEADER gives one, after the header
\* row; NONE gives none.  The rule after the header is there only when the
\* header row is, so that no two \hline lines are adjacent.
C20_HlinesFollowHrules ==
    (/\ call.op = "get_latex_string" /\ call.result = "ok"
     /\ FormatOption(call.arg)
     /\ Given(call.arg, "border", _border)) =>
        LET hrules == Given(call.arg, "hrules", _hrules)
            header == Given(call.arg, "header", _header)
        IN  /\ hrules = FRAME => HlineLines = {2, Len(ReturnedLines) - 1}
            /\ hrules = ALL =>
                   HlineLines = {2} \cup {i + 1 : i \in ContentLines}
            /\ hrules = HEADER =>
                   HlineLines = (IF header THEN {3} ELSE {})
            /\ hrules = NONE => HlineLines = {}
            /\ (header \/ _rows # <<>>) =>
                   \A i \in HlineLines : i + 1 \notin HlineLines

\* C21: a property setter that rejects its value leaves the table as it
\* was: every persistent option and every per-column map (none_format,
\* align, valign, min_width, max_width) holds the value it held before.
C21_RejectedSetterChangesNothing ==
    [][(/\ call'.op \in {"none_format", "align", "valign", "max_width",
                        "min_width"}
        /\ call'.result # "ok") =>
          UNCHANGED <<storeVars, columnVars, _kwargs, optionVars>>]_vars

\* the character a junction is drawn with: its own when it is set, the
\* shared junction character when it is unset
JunctionAt(own) == IF own # "None" THEN own ELSE _junction_char

\* the columns of a rule line that hold the inner junctions
InnerJunctions ==
    LET pad == _get_padding_widths(_get_options(Self, NoOptions))
    IN  {1 + Sum([k \in 1..i |-> _widths[k] + pad[1] + pad[2] + 1]) :
            i \in 1..(Len(_widths) - 1)}

\* C22: a position-specific junction that is unset is drawn with the shared
\* junction character of the time of the render, one that is set with its
\* own: after any set_style and junction setter calls, in the top rule, the
\* rule under the header and the bottom rule of a table that is not in
\* orgmode style.
C22_JunctionsFallBackAtRender ==
    (/\ call.op = "get_string" /\ call.result = "ok"
     /\ _style # ORGMODE
     /\ _header /\ _border /\ _hrules = FRAME /\ _vrules = ALL
     /\ _title = "None" /\ _horizontal_align_char = "None"
     /\ Len(_rows) = 1 /\ Len(ReturnedLines) = 5) =>
        LET top == ReturnedLines[1]
            mid == ReturnedLines[3]
            bottom == ReturnedLines[5]
            last == Len(top)
        IN  /\ SubSeq(top, 1, 1) = JunctionAt(_top_left_junction_char)
            /\ SubSeq(top, last, last) = JunctionAt(_top_right_junction_char)
            /\ SubSeq(mid, 1, 1) = JunctionAt(_left_junction_char)
            /\ SubSeq(mid, last, last) = JunctionAt(_right_junction_char)
            /\ SubSeq(bottom, 1, 1) = JunctionAt(_bottom_left_junction_char)
            /\ SubSeq(bottom, last, last)
                   = JunctionAt(_bottom_right_junction_char)
            /\ \A i \in InnerJunctions :
                  /\ SubSeq(top, i, i) = JunctionAt(_top_junction_char)
                  /\ SubSeq(mid, i, i) = _junction_char
                  /\ SubSeq(bottom, i, i) = JunctionAt(_bottom_junction_char)

\* the indices of the stored rows the last render displayed, no sortby
\* given: the rows the filter lets through, cut to the window
DisplayedIndices ==
    PySlice(SelectSeq([i \in 1..Len(_rows) |-> i],
                      LAMBDA i : row_filter(Given(call.arg, "row_filter",
                                                  _row_filter),
                                            _rows[i].vals)),
            Given(call.arg, "start", _start), Given(call.arg, "end", _end))

\* the line of the text that holds the k-th displayed row when a rule
\* follows exactly the displayed rows that are flagged
RowLineOf(k) ==
    3 + k + Cardinality({j \in 1..(k - 1) : _dividers[DisplayedIndices[j]]})

\* C23: with no sortby, a divider rule is drawn after a displayed row
\* exactly when that stored row was flagged as a divider and it is not the
\* last displayed row, for every window and row filter.
C23_DividersStayWithRows ==
    (call.op = "get_string" /\ call.result = "ok") =>
        LET n == Len(DisplayedIndices)
        IN  /\ Len(ReturnedLines)
                  = 4 + n + Cardinality({j \in 1..(n - 1) :
                                            _dividers[DisplayedIndices[j]]})
            /\ \A k \in 1..n :
                  /\ RowLineOf(k) <= Len(ReturnedLines)
                  /\ ReturnedLines[RowLineOf(k)] # _hrule
            /\ \A k \in 1..(n - 1) :
                  /\ RowLineOf(k) + 1 <= Len(ReturnedLines)
                  /\ (ReturnedLines[RowLineOf(k) + 1] = _hrule)
                        <=> _dividers[DisplayedIndices[k]]

\* C24: in markdown style every column's final width is at least 1 when
\* the column is left- or right-aligned and at least 3 when it is centred,
\* also for a table without rows and for widths scaled down for
\* max_table_width.
C24_MarkdownMinimumWidth ==
    (call.op = "get_string" /\ call.result = "ok" /\ _style = MARKDOWN) =>
        \A i \in 1..Len(_field_names) :
            /\ i <= Len(_widths)
            /\ _widths[i] >= (IF _align[_field_names[i]] \in {"l", "r"}
                              THEN 1 ELSE 3)

\* C25: with a border and a title, the title line and the rule above it
\* are as wide as the header, the rules and the data lines of the same
\* render, also when a fields subset hides some columns.
C25_TitleSpansTable ==
    (/\ call.op = "get_string" /\ call.result = "ok"
     /\ "title" \in DOMAIN call.arg /\ _border) =>
        \A i, j \in 1..Len(ReturnedLines) :
            Len(ReturnedLines[i]) = Len(ReturnedLines[j])

\* the number of pages of the last paginate call that the window and the
\* page length ask for: max(1, ceil((end - start) / page_length))
PagesAsked ==
    LET start == Given(call.arg.kwargs, "start", 0)
        end == Given(call.arg.kwargs, "end", Len(_rows))
    IN  IF end > start
        THEN (end - start + call.arg.page_length - 1) \div call.arg.page_length
        ELSE 1

\* C26: paginate with a page_length >= 1 comes to an end, and without
\* sortby and row_filter its pages are the renders of consecutive windows
\* of page_length rows, the last one cut at end, that begin at start and
\* cover the rows of [start, end) once and in order; there are
\* max(1, ceil((end - start) / page_length)) pages.
C26_PagesAreConsecutiveWindows ==
    call.op = "paginate" =>
        LET start == Given(call.arg.kwargs, "start", 0)
            end == Given(call.arg.kwargs, "end", Len(_rows))
            page_length == call.arg.page_length
        IN  /\ call.result = "ok"
            /\ returned = JoinWith(
                  [k \in 1..PagesAsked |->
                      get_string(Self, [start |-> start + (k - 1) * page_length,
                                        end |-> Min(start + k * page_length,
                                                    end)]).text],
                  "\f")

\* three rows in pages of two: two pages
C26_Witness ==
    /\ call.op = "paginate" /\ call.result = "ok"
    /\ call.arg = [page_length |-> 2, kwargs |-> NoOptions]
    /\ Len(_rows) = 3
    /\ PagesAsked = 2
    /\ \E i \in 1..Len(returned) : SubSeq(returned, i, i) = "\f"

\* name is orig followed by zero or more marker characters
IsMarked(orig, name) ==
    \E n \in 0..Len(name) : name = orig \o Rep("'", n)

\* C27: after make_fields_unique the names of a header row are pairwise
\* distinct, as many as before, each the original name followed by zero or
\* more marker characters, and the assignment of the names to field_names
\* that follows does not fail.
C27_MadeUniqueFieldsAreUnique ==
    call.op = "generate_table" =>
        \A k \in 1..Len(call.arg) :
            call.arg[k].header =>
                LET fields == PadRow(call.arg[k].cells, MaxRowWidth(call.arg))
                    names == make_fields_unique(fields)
                IN  /\ Len(names) = Len(fields)
                    /\ \A i \in 1..Len(fields) : IsMarked(fields[i], names[i])
                    /\ IsUnique(names)
                    /\ Len(call.arg) = 1 =>
                           call.result = "ok" /\ _field_names = names

\* the width of the table of the last render: the columns with their
\* padding, one separator per column and one more
FullWidth ==
    LET pad == _get_padding_widths(_get_options(Self, NoOptions))
    IN  Sum([i \in 1..Len(_widths) |-> _widths[i] + pad[1] + pad[2]])
        + Len(_widths) + 1

\* C28: with border and all fields displayed every line of the text of
\* get_string (rules, header, the lines of the rows) is as wide as the
\* columns with their padding, one separator per column and one more, for
\* every vrules style and with a horizontal alignment character.
C28_EveryLineHasFullWidth ==
    (/\ call.op = "get_string" /\ call.result = "ok"
     /\ _border /\ returned # "") =>
        \A i \in 1..Len(SplitLines(returned, 1, 1)) :
            Len(SplitLines(returned, 1, 1)[i]) = FullWidth

\* the table s after the setter of every option of kwargs
SettersApplied(s, kwargs) ==
    Then(IF "vrules" \in DOMAIN kwargs
         THEN vrules_setter(s, kwargs.vrules).s ELSE s, LAMBDA s1 :
    Then(IF "hrules" \in DOMAIN kwargs
         THEN hrules_setter(s1, kwargs.hrules).s ELSE s1, LAMBDA s2 :
    Then(IF "padding_width" \in DOMAIN kwargs
         THEN padding_width_setter(s2, kwargs.padding_width).s ELSE s2,
         LAMBDA s3 :
    Then(IF "left_padding_width" \in DOMAIN kwargs
         THEN left_padding_width_setter(s3, kwargs.left_padding_width).s
         ELSE s3, LAMBDA s4 :
    IF "right_padding_width" \in DOMAIN kwargs
    THEN right_padding_width_setter(s4, kwargs.right_padding_width).s
    ELSE s4))))

\* C29: a table constructed with valid options stores them, and renders,
\* as the table constructed without them does after the setter of each
\* option: vrules=FRAME, hrules=FRAME and padding widths of 0 included.
C29_ConstructorOptionsAsSetters ==
    call.op = "__init__" /\ ncalls > 0 =>
        LET set == SettersApplied(__init__(call.arg.field_names, NoOptions),
                                  call.arg.kwargs)
        IN  /\ _vrules = set._vrules
            /\ _hrules = set._hrules
            /\ _padding_width = set._padding_width
            /\ _left_padding_width = set._left_padding_width
            /\ _right_padding_width = set._right_padding_width
            /\ get_string(Self, NoOptions).text
                   = get_string(set, NoOptions).text

\* the rows and the per-column maps of the table
RowsAndMaps == <<_rows, _dividers, _align, _valign, _max_width, _min_width>>

\* C30: a table taken by table[i] or table[a:b] holds the selected rows in
\* order under the same field names, and afterwards a change of a
\* per-column map or of the rows of one of the two tables leaves the rows
\* and the per-column maps of the other as they were.
C30_TakenTableIsIndependent ==
    [][/\ (call'.op = "__getitem__" /\ call'.result = "ok") =>
           /\ new'[1].table._field_names = _field_names
           /\ [k \in 1..Len(new'[1].table._rows) |->
                  new'[1].table._rows[k].vals]
              = IF call'.arg.kind = "int"
                THEN <<_rows[call'.arg.i + 1].vals>>
                ELSE [k \in 1..((IF call'.arg.stop <= Len(_rows)
                                 THEN call'.arg.stop ELSE Len(_rows))
                                - call'.arg.start) |->
                         _rows[call'.arg.start + k].vals]
       /\ (new # <<>> /\ call'.arg.on = "new") => UNCHANGED RowsAndMaps
       /\ (new # <<>> /\ call'.arg.on = "self") =>
           /\ new'[1].table._rows = new[1].table._rows
           /\ new'[1].table._align = new[1].table._align
           /\ new'[1].table._valign = new[1].table._valign
           /\ new'[1].table._max_width = new[1].table._max_width
           /\ new'[1].table._min_width = new[1].table._min_width]_vars
====
